---- MODULE Spec2Model ----
(***************************************************************************)
(* Model of the Dialpad webhook receiver (webhook_server.py) and of the    *)
(* voicemail poller with its "seen" ledger (scripts/poll_voicemails.py).   *)
(*                                                                         *)
(* The specifications share the variables:                                 *)
(*   SpecPoller    successive runs of poll_voicemails.main over one ledger *)
(*   SpecLedger    free calls of has_seen / mark_seen on the ledger table  *)
(*   SpecWebhook   requests to /webhook/dialpad, served one at a time      *)
(*   SpecEndpoints requests to any of the four POST endpoints              *)
(*   SpecClassify  classify_inbound_notification applied to a payload      *)
(*   SpecAuth      the verification functions applied to a request         *)
(*   SpecMarkdown  the Telegram message texts built for one event         *)
(*   SpecHelpers   helper functions of webhook_server.py on one input      *)
(*   SpecCallTools select_call, fetch_calls, normalize_duration on an input *)
(*   SpecFetch     the paging loops, one page request per step             *)
(*   SpecWrappers  the command-line wrappers of bin/, one command per run  *)
(***************************************************************************)
EXTENDS Integers, Sequences, FiniteSets, TLC

VARIABLES
    cfg,        \* environment configuration read at import time
    ledger,     \* rows of table voicemails_seen: [call_id, notified_at]
    clock,      \* wall-clock time, in lookback units
    ppc,        \* position of the poller: idle, loop, send, mark
    run,        \* locals of the current poller run
    delivered,  \* history: per call_id, number of send_to_telegram calls that returned True
    owed,       \* history: call_ids left failed by the previous run, not yet attempted in this one
    failedCur,  \* history: call_ids whose latest send in the current run failed
    marks,      \* history: per call_id, the times at which mark_seen was called
    db,         \* event ids the message store holds
    hookPosts,  \* history: per event id, number of hook POSTs the gateway accepted
    cur         \* the request the server is handling, with its outcome

pvars == <<ledger, clock, ppc, run, delivered, owed, failedCur, marks>>
wvars == <<db, hookPosts, cur>>
vars == <<cfg, ledger, clock, ppc, run, delivered, owed, failedCur, marks, db, hookPosts, cur>>

(***************************************************************************)
(* Bounds                                                                  *)
(***************************************************************************)
MaxClock == 3       \* the clock stops advancing here
MaxCalls == 2       \* length of the call list one API fetch returns
MaxDelivered == 2   \* cap of the delivered counter
MaxMarks == 2       \* mark_seen calls per call_id in SpecLedger
MaxPosts == 2       \* the hookPosts counter saturates here

(***************************************************************************)
(* poll_voicemails.py: configuration and the ledger                        *)
(***************************************************************************)
LOOKBACK == 2   \* POLL_LOOKBACK_HOURS default, in clock units (hours)

CallIds == {"c1", "c2", "c3"}

\* SELECT 1 FROM voicemails_seen WHERE call_id = ?
has_seen(rows, call_id) == \E r \in rows : r.call_id = call_id

\* INSERT OR REPLACE in place of INSERT OR IGNORE: the new row overwrites the old.
mark_seen_replace(rows, call_id, t) ==
    [rows |-> {r \in rows : r.call_id # call_id}
                \cup {[call_id |-> call_id, notified_at |-> t]},
     raised |-> FALSE]

\* An insert that writes nothing.
mark_seen_noop(rows, call_id, t) == [rows |-> rows, raised |-> FALSE]

\* INSERT OR IGNORE INTO voicemails_seen (call_id, notified_at) VALUES (?, now); commit.
\* call_id is the PRIMARY KEY: a conflicting insert is ignored, not an IntegrityError.
\* The result is the table afterwards and whether the call raised.
mark_seen(rows, call_id, t) ==
    [rows |-> IF \E r \in rows : r.call_id = call_id
              THEN rows
              ELSE rows \cup {[call_id |-> call_id, notified_at |-> t]},
     raised |-> FALSE]

LedgerIds == {r.call_id : r \in ledger}

(***************************************************************************)
(* poll_voicemails.py: the call records the API lists                      *)
(***************************************************************************)
\* call_id: the stripped text of the field ("" when missing, None or blank);
\* padded: the raw field carries surrounding whitespace;
\* vm_link / vm_rec: voicemail_link and voicemail_recording_id;
\* ended_ok / ended: date_ended parses as a number / its value;
\* contact_ok: the contact field is absent, null or an object.
Call(id, padded, link, rec, ok, ended, contact_ok) ==
    [call_id |-> id, padded |-> padded, vm_link |-> link, vm_rec |-> rec,
     ended_ok |-> ok, ended |-> ended, contact_ok |-> contact_ok]

CallPool ==
    { Call("c1", FALSE, "url", "none", TRUE, 0, TRUE),
      Call("c1", TRUE, "none", "id", TRUE, 0, TRUE),
      Call("c2", FALSE, "url", "id", TRUE, 1, TRUE),
      Call("c2", FALSE, "url", "none", TRUE, 1, FALSE),
      Call("", FALSE, "url", "none", TRUE, 1, TRUE),
      Call("c2", FALSE, "blank", "none", TRUE, 1, TRUE),
      Call("c3", FALSE, "url", "none", FALSE, 0, TRUE) }

CallLists == UNION {[1..n -> CallPool] : n \in 0..MaxCalls}

\* str(call.get("call_id") or "").strip()
call_id_of(call) == call.call_id

has_voicemail(call) == call.vm_link = "url" \/ call.vm_rec = "id"

is_within_lookback(call, lookback_ms, now_ms) ==
    /\ call.ended_ok
    /\ (now_ms - lookback_ms) <= call.ended
    /\ call.ended <= now_ms

RECURSIVE SelectSeq2(_, _, _)
SelectSeq2(s, lookback_ms, now_ms) ==
    IF s = <<>> THEN <<>>
    ELSE LET rest == SelectSeq2(Tail(s), lookback_ms, now_ms)
         IN IF has_voicemail(Head(s)) /\ is_within_lookback(Head(s), lookback_ms, now_ms)
            THEN <<Head(s)>> \o rest
            ELSE rest

\* voicemails = [call for call in calls if has_voicemail(call) and is_within_lookback(...)]
voicemails_of(calls, lookback_ms, now_ms) == SelectSeq2(calls, lookback_ms, now_ms)

\* checked: the call_id has_seen answered False for in this iteration ("" if none);
\* sent_ok: the call_id send_to_telegram returned True for in this iteration.
NoRun == [now_ms |-> 0, calls |-> <<>>, voicemails |-> <<>>, i |-> 1, found |-> 0,
          notified |-> 0, aborted |-> FALSE, checked |-> "", sent_ok |-> ""]

CurCall == run.voicemails[run.i]

(***************************************************************************)
(* poll_voicemails.main, step by step                                      *)
(***************************************************************************)
\* main() up to the loop: API key check, ensure_db, fetch, filter.
PollStart ==
    /\ ppc = "idle"
    /\ owed' = failedCur
    /\ failedCur' = {}
    /\ \/ /\ cfg.apiKey = ""
          /\ run' = [NoRun EXCEPT !.now_ms = clock]
       \/ /\ cfg.apiKey # ""
          /\ \/ run' = [NoRun EXCEPT !.now_ms = clock]      \* fetch raised: found 0
             \/ \E calls \in CallLists :
                  LET vms == voicemails_of(calls, LOOKBACK, clock)
                  IN run' = [NoRun EXCEPT !.now_ms = clock, !.calls = calls,
                                          !.voicemails = vms, !.found = Len(vms)]
    /\ ppc' = "loop"
    /\ UNCHANGED <<cfg, wvars, ledger, clock, delivered, marks>>

\* Loop head with the has_seen check skipped: a faulty variant.
LoopNextNoCheck ==
    /\ ppc = "loop"
    /\ run.i <= Len(run.voicemails)
    /\ IF call_id_of(CurCall) = ""
       THEN /\ run' = [run EXCEPT !.i = @ + 1]
            /\ ppc' = "loop"
       ELSE IF ~CurCall.contact_ok
       THEN /\ run' = [run EXCEPT !.aborted = TRUE, !.i = Len(run.voicemails) + 1]
            /\ ppc' = "loop"
       ELSE /\ run' = [run EXCEPT !.checked = "", !.sent_ok = ""]
            /\ ppc' = "send"
    /\ UNCHANGED <<cfg, wvars, ledger, clock, delivered, owed, failedCur, marks>>

\* One iteration up to the send: call_id, has_seen, build_notification.
LoopNext ==
    /\ ppc = "loop"
    /\ run.i <= Len(run.voicemails)
    /\ IF call_id_of(CurCall) = ""
       THEN /\ run' = [run EXCEPT !.i = @ + 1]
            /\ ppc' = "loop"
       ELSE IF has_seen(ledger, call_id_of(CurCall))
       THEN /\ run' = [run EXCEPT !.i = @ + 1]
            /\ ppc' = "loop"
       ELSE IF ~CurCall.contact_ok
       THEN \* build_notification raises: the outer except ends the run
            /\ run' = [run EXCEPT !.aborted = TRUE, !.i = Len(run.voicemails) + 1]
            /\ ppc' = "loop"
       ELSE /\ run' = [run EXCEPT !.checked = call_id_of(CurCall), !.sent_ok = ""]
            /\ ppc' = "send"
    /\ UNCHANGED <<cfg, wvars, ledger, clock, delivered, owed, failedCur, marks>>

\* send_to_telegram with a failed send treated as delivered: a faulty variant.
SendMarkAlways ==
    /\ ppc = "send"
    /\ \E ok \in BOOLEAN :
         /\ ok => delivered[call_id_of(CurCall)] < MaxDelivered
         /\ delivered' = IF ok
                         THEN [delivered EXCEPT ![call_id_of(CurCall)] = @ + 1]
                         ELSE delivered
         /\ failedCur' = IF ok THEN failedCur \ {call_id_of(CurCall)}
                         ELSE failedCur \cup {call_id_of(CurCall)}
         /\ ppc' = "mark"
         /\ run' = IF ok THEN [run EXCEPT !.sent_ok = call_id_of(CurCall)] ELSE run
    /\ owed' = owed \ {call_id_of(CurCall)}
    /\ UNCHANGED <<cfg, wvars, ledger, clock, marks>>

\* if send_to_telegram(message): ... ; a False result goes to the next call.
Send ==
    /\ ppc = "send"
    /\ \E ok \in BOOLEAN :
         /\ ok => delivered[call_id_of(CurCall)] < MaxDelivered
         /\ delivered' = IF ok
                         THEN [delivered EXCEPT ![call_id_of(CurCall)] = @ + 1]
                         ELSE delivered
         /\ failedCur' = IF ok THEN failedCur \ {call_id_of(CurCall)}
                         ELSE failedCur \cup {call_id_of(CurCall)}
         /\ ppc' = IF ok THEN "mark" ELSE "loop"
         /\ run' = IF ok THEN [run EXCEPT !.sent_ok = call_id_of(CurCall)]
                   ELSE [run EXCEPT !.i = @ + 1]
    /\ owed' = owed \ {call_id_of(CurCall)}
    /\ UNCHANGED <<cfg, wvars, ledger, clock, marks>>

\* mark_seen(conn, call_id); notified_count += 1
Mark ==
    /\ ppc = "mark"
    /\ LET res == mark_seen(ledger, call_id_of(CurCall), clock)
       IN /\ ledger' = res.rows
          /\ run' = IF res.raised
                    THEN [run EXCEPT !.aborted = TRUE, !.i = Len(run.voicemails) + 1]
                    ELSE [run EXCEPT !.i = @ + 1, !.notified = @ + 1]
    /\ ppc' = "loop"
    /\ UNCHANGED <<cfg, wvars, clock, delivered, owed, failedCur, marks>>

\* The loop is over: print the summary and return 0.
PollEnd ==
    /\ ppc = "loop"
    /\ run.i > Len(run.voicemails)
    /\ ppc' = "idle"
    /\ UNCHANGED <<cfg, wvars, ledger, clock, run, delivered, owed, failedCur, marks>>

\* Time passes.
Tick ==
    /\ clock < MaxClock
    /\ clock' = clock + 1
    /\ UNCHANGED <<cfg, wvars, ledger, ppc, run, delivered, owed, failedCur, marks>>

\* The environment variables the two programs read: DIALPAD_API_KEY,
\* DIALPAD_WEBHOOK_SECRET, OPENCLAW_HOOKS_TOKEN ("" when unset).
Cfgs == [apiKey : {"", "key"}, secret : {"", "s3cret"}, hooksToken : {"", "tok"}]

PollerCfgs == {c \in Cfgs : c.secret = "" /\ c.hooksToken = ""}

EventIds == {"m1", "m2"}

Idle == [pc |-> "idle"]

PollerIdle ==
    /\ ledger = {}
    /\ clock = 0
    /\ ppc = "idle"
    /\ run = NoRun
    /\ delivered = [c \in CallIds |-> 0]
    /\ owed = {}
    /\ failedCur = {}
    /\ marks = [c \in CallIds |-> <<>>]

WebhookIdle ==
    /\ db = {}
    /\ hookPosts = [e \in EventIds |-> 0]
    /\ cur = Idle

InitPoller ==
    /\ cfg \in PollerCfgs
    /\ PollerIdle
    /\ WebhookIdle

NextPoller == PollStart \/ LoopNext \/ Send \/ Mark \/ PollEnd \/ Tick

SpecPoller == InitPoller /\ [][NextPoller]_vars

(***************************************************************************)
(* The ledger on its own: mark_seen called freely, any id at any time      *)
(***************************************************************************)
LedgerMarkSeen(id) ==
    /\ Len(marks[id]) < MaxMarks
    /\ LET res == mark_seen(ledger, id, clock)
       IN /\ ledger' = res.rows
          /\ marks' = [marks EXCEPT ![id] = Append(@, [at |-> clock, raised |-> res.raised])]
    /\ UNCHANGED <<cfg, wvars, clock, ppc, run, delivered, owed, failedCur>>

NextLedger == (\E id \in CallIds : LedgerMarkSeen(id)) \/ Tick

SpecLedger == InitPoller /\ [][NextLedger]_vars

(***************************************************************************)
(* webhook_server.py: JSON values and text                                 *)
(*                                                                         *)
(* A JSON value is [t, s]: t its type, s its text as a sequence of words   *)
(* (the words of a string are joined by single spaces; the word " " is a   *)
(* run of whitespace).  t = "absent" marks a key the object does not hold. *)
(***************************************************************************)
V(t, s) == [t |-> t, s |-> s]
Absent == V("absent", <<>>)
Null == V("null", <<>>)
Str(s) == V("str", s)
Num(w) == V("num", <<w>>)        \* a non-zero number, w its decimal text
True == V("true", <<"True">>)
False == V("false", <<"False">>)
List1(s) == V("list", s)         \* a list holding the one string s
EmptyList == V("emptylist", <<>>)
Obj(s) == V("dict", s)           \* an object; for a contact, s is its "name"

\* data.get(key) and data.get(key, default)
Get(data, key) == IF data[key].t = "absent" THEN Null ELSE data[key]
GetD(data, key, default) == IF data[key].t = "absent" THEN default ELSE data[key]

\* Python truth value, `a or b`, and str(v)
Truthy(v) ==
    CASE v.t \in {"absent", "null", "emptylist", "false"} -> FALSE
      [] v.t = "str" -> v.s # <<>>
      [] OTHER -> TRUE
PyOr(a, b) == IF Truthy(a) THEN a ELSE b
PyStr(v) ==
    CASE v.t = "str" -> v.s
      [] v.t = "num" -> v.s
      [] v.t \in {"true", "false"} -> v.s
      [] v.t \in {"null", "absent"} -> <<"None">>
      [] v.t = "emptylist" -> <<"[]">>
      [] v.t = "list" -> <<"['">> \o v.s \o <<"']">>
      [] OTHER -> <<"{'name':">> \o v.s \o <<"}">>

\* str.lower() and the length of a word, over the words the model uses
Lower(w) ==
    CASE w = "Inbound" -> "inbound"
      [] w = "Missed" -> "missed"
      [] w = "Bearer" -> "bearer"
      [] w = "OTP" -> "otp"
      [] w = "Your" -> "your"
      [] w = "Bank" -> "bank"
      [] w = "A" -> "a"
      [] w = "B" -> "b"
      [] w = "Verification" -> "verification"
      [] OTHER -> w
LowerSeq(s) == [k \in 1..Len(s) |-> Lower(s[k])]

WordLen(w) ==
    CASE w \in {" "} -> 1
      [] w \in {"is", "hi"} -> 2
      [] w \in {"OTP", "otp", "123", "N/A"} -> 3
      [] w \in {"Your", "your", "code", "Bank", "bank", "jane", "None", "body", "real"} -> 4
      [] w \in {"hello", "login"} -> 5
      [] w \in {"552013"} -> 6
      [] w \in {"Unknown", "inbound", "Inbound"} -> 7
      [] w \in {"outbound"} -> 8
      [] OTHER -> 12

\* Number of digits of a word that is all digits, else 0
Digits(w) == CASE w = "552013" -> 6 [] w = "123" -> 3 [] w = "12345" -> 5 [] OTHER -> 0

\* str.strip() leaves nothing: every word is whitespace
StripsEmpty(s) == \A k \in 1..Len(s) : s[k] = " "

\* is_blank_text(value): not str(value or "").strip()
is_blank_text(v) == StripsEmpty(PyStr(PyOr(v, Str(<<>>))))

\* extract_message_text(data)
extract_message_text(data) ==
    LET text == GetD(data, "text", Str(<<>>))
        text_content == GetD(data, "text_content", Str(<<>>))
    IN IF ~is_blank_text(text) THEN PyStr(text)
       ELSE IF ~is_blank_text(text_content) THEN PyStr(text_content)
       ELSE PyStr(PyOr(PyOr(text, text_content), Str(<<>>)))

\* first_value(value)
first_value(v) ==
    CASE v.t = "list" -> Str(v.s)
      [] v.t = "emptylist" -> Null
      [] OTHER -> v

(***************************************************************************)
(* webhook_server.py: is_sensitive_message                                 *)
(***************************************************************************)
\* Characters between the end of word i and the start of word j > i.
RECURSIVE Between(_, _, _)
Between(c, i, j) == IF j = i + 1 THEN 1 ELSE WordLen(c[j - 1]) + 1 + Between(c, i, j - 1)

Pairs(c) == {p \in (1..Len(c)) \X (1..Len(c)) : p[1] < p[2]}

IsCode(w) == Digits(w) >= 4 /\ Digits(w) <= 8
QualifiedCode(c, k) ==
    k < Len(c) /\ Lower(c[k]) \in {"verification", "security", "auth", "authentication"}
               /\ Lower(c[k + 1]) = "code"

\* SENSITIVE_KEYWORD_PATTERNS[0]: otp, 2fa, mfa, passcode, verification code, ...
KeywordPattern(c) ==
    \E k \in 1..Len(c) : Lower(c[k]) \in {"otp", "2fa", "mfa", "passcode"} \/ QualifiedCode(c, k)

\* SENSITIVE_KEYWORD_PATTERNS[1]: issuer .{0,80} code word
IssuerPattern(c) ==
    \E p \in Pairs(c) :
        /\ Lower(c[p[1]]) \in {"google", "intuit", "bank", "chase", "citi", "paypal", "venmo"}
        /\ Lower(c[p[2]]) \in {"code", "otp", "passcode", "verification"}
        /\ Between(c, p[1], p[2]) <= 80

\* SENSITIVE_KEYWORD_PATTERNS[2]: code word .{0,30} 4-8 digits
CodeThenDigits(c) ==
    \E p \in Pairs(c) :
        /\ Lower(c[p[1]]) \in {"code", "otp", "passcode"}
        /\ IsCode(c[p[2]])
        /\ Between(c, p[1], p[2]) <= 30

\* SENSITIVE_KEYWORD_PATTERNS[3]: 4-8 digits .{0,30} code word
DigitsThenCode(c) ==
    \E p \in Pairs(c) :
        /\ IsCode(c[p[1]])
        /\ Lower(c[p[2]]) \in {"code", "otp", "passcode"}
        /\ Between(c, p[1], p[2]) <= 30

\* CODE_TOKEN_PATTERN: 4 to 8 digits, each optionally followed by one space or dash
RECURSIVE DigitSum(_, _, _)
DigitSum(c, i, j) == IF i > j THEN 0 ELSE Digits(c[i]) + DigitSum(c, i + 1, j)
HasCodeToken(body) ==
    \E i \in 1..Len(body) : \E j \in i..Len(body) :
        /\ \A k \in i..j : Digits(body[k]) > 0
        /\ DigitSum(body, i, j) >= 4 /\ DigitSum(body, i, j) <= 8

SecurityContext(c) ==
    \E k \in 1..Len(c) :
        Lower(c[k]) \in {"verify", "verification", "security", "login", "signin", "auth",
                         "account", "bank", "google", "intuit"}

\* is_sensitive_message without the code-token heuristic: a faulty variant.
is_sensitive_message_patterns_only(text, sender, contact_number) ==
    IF StripsEmpty(text) THEN FALSE
    ELSE LET combined == sender \o contact_number \o text
         IN \/ KeywordPattern(combined)
            \/ IssuerPattern(combined)
            \/ CodeThenDigits(combined)
            \/ DigitsThenCode(combined)

\* is_sensitive_message(text, sender, contact_number), all three strings
is_sensitive_message(text, sender, contact_number) ==
    IF StripsEmpty(text) THEN FALSE
    ELSE LET combined == sender \o contact_number \o text
         IN \/ KeywordPattern(combined)
            \/ IssuerPattern(combined)
            \/ CodeThenDigits(combined)
            \/ DigitsThenCode(combined)
            \/ (HasCodeToken(text) /\ SecurityContext(combined))

(***************************************************************************)
(* webhook_server.py: classification                                       *)
(***************************************************************************)
\* Substring tests on an event-type word.
MentionsCall(w) == w \in {"call.missed", "call.no_answer", "call.ended", "missed_call"}
MentionsMissedHint(w) == w \in {"call.missed", "missed_call"}
MentionsNoAnswer(w) == w \in {"call.no_answer"}

\* detect_reliable_missed_call_hint without the call-context requirement: a faulty variant.
detect_reliable_missed_call_hint_no_context(data) ==
    LET event_text == LowerSeq(PyStr(GetD(data, "event_type", Str(<<>>))))
        call_state == LowerSeq(PyStr(GetD(data, "call_state", Str(<<>>))))
        has_missed_signal ==
            \/ data.call_missed.t = "true"
            \/ data.missed_call.t = "true"
            \/ call_state \in {<<"missed">>, <<"no_answer">>, <<"unanswered">>}
            \/ \E k \in 1..Len(event_text) : MentionsMissedHint(event_text[k])
            \/ \E k \in 1..Len(event_text) :
                   MentionsCall(event_text[k]) /\ MentionsNoAnswer(event_text[k])
        from_num == first_value(Get(data, "from_number"))
    IN /\ LowerSeq(PyStr(GetD(data, "direction", Str(<<>>)))) = <<"inbound">>
       /\ is_blank_text(Str(extract_message_text(data)))
       /\ has_missed_signal
       /\ ~StripsEmpty(PyStr(PyOr(from_num, Str(<<>>))))

\* detect_reliable_missed_call_hint(data), data an object
detect_reliable_missed_call_hint(data) ==
    LET event_text == LowerSeq(PyStr(GetD(data, "event_type", Str(<<>>))))
        call_state == LowerSeq(PyStr(GetD(data, "call_state", Str(<<>>))))
        has_missed_signal ==
            \/ data.call_missed.t = "true"
            \/ data.missed_call.t = "true"
            \/ call_state \in {<<"missed">>, <<"no_answer">>, <<"unanswered">>}
            \/ \E k \in 1..Len(event_text) : MentionsMissedHint(event_text[k])
            \/ \E k \in 1..Len(event_text) :
                   MentionsCall(event_text[k]) /\ MentionsNoAnswer(event_text[k])
        has_call_context ==
            \/ \E f \in {"call_id", "call_missed", "call_state"} : data[f].t # "absent"
            \/ \E k \in 1..Len(event_text) : MentionsCall(event_text[k])
        from_num == first_value(Get(data, "from_number"))
    IN /\ LowerSeq(PyStr(GetD(data, "direction", Str(<<>>)))) = <<"inbound">>
       /\ is_blank_text(Str(extract_message_text(data)))
       /\ has_missed_signal
       /\ has_call_context
       /\ ~StripsEmpty(PyStr(PyOr(from_num, Str(<<>>))))

\* classify_inbound_notification without the blank-text test: a faulty variant.
classify_inbound_notification_no_blank(data) ==
    IF LowerSeq(PyStr(GetD(data, "direction", Str(<<>>)))) # <<"inbound">> THEN "not_inbound"
    ELSE IF detect_reliable_missed_call_hint(data) THEN "missed_call"
    ELSE "sms"

\* classify_inbound_notification(data), data an object
classify_inbound_notification(data) ==
    IF LowerSeq(PyStr(GetD(data, "direction", Str(<<>>)))) # <<"inbound">> THEN "not_inbound"
    ELSE IF detect_reliable_missed_call_hint(data) THEN "missed_call"
    ELSE IF is_blank_text(Str(extract_message_text(data))) THEN "blank_sms"
    ELSE "sms"

(***************************************************************************)
(* webhook_server.py: request authentication                               *)
(*                                                                         *)
(* HMAC-SHA256 is modelled as collision free: a digest is the pair of the  *)
(* key and the bytes it was computed over.                                 *)
(***************************************************************************)
hmac_sha256(key, msg) == <<key, msg>>

\* One comma-separated piece of a signature header.  form is what precedes the
\* digits ("raw": nothing, "sha256=", "v1:", "sha256=v1:": a prefix inside a
\* prefix, "v1": a label without separator); upper: the hex digits are in capitals; hex64: the digits are 64
\* hex characters; digest: what they spell.
PieceF(form, upper, hex64, key, msg) ==
    [form |-> form, upper |-> upper, hex64 |-> hex64, digest |-> hmac_sha256(key, msg)]
Piece(hex64, key, msg) == PieceF("raw", FALSE, hex64, key, msg)

\* A candidate is hex text: the digest it spells, and whether in capitals.
Hex(digest, upper) == [digest |-> digest, upper |-> upper]

\* What is left of a piece after the split on "=" or ":" is the bare digits.
StripsToDigits(piece) == piece.form \in {"raw", "sha256=", "v1:"}

\* parse_signature_candidates without piece.lower(): a faulty variant.
parse_signature_candidates_case_sensitive(header_value) ==
    {Hex(header_value[k].digest, FALSE) :
        k \in {j \in 1..Len(header_value) :
                  /\ StripsToDigits(header_value[j])
                  /\ header_value[j].hex64
                  /\ ~header_value[j].upper}}

\* parse_signature_candidates(header_value): the well-formed pieces, in lower case
parse_signature_candidates(header_value) ==
    {Hex(header_value[k].digest, FALSE) :
        k \in {j \in 1..Len(header_value) :
                  StripsToDigits(header_value[j]) /\ header_value[j].hex64}}

\* verify_hmac_signature(raw_body, headers, secret)
verify_hmac_signature(raw_body, headers, secret) ==
    IF secret = "" THEN TRUE
    ELSE LET provided == parse_signature_candidates(headers.sig)
                           \cup parse_signature_candidates(headers.sig256)
         IN IF provided = {} THEN FALSE
            ELSE \E candidate \in provided : candidate = Hex(hmac_sha256(secret, raw_body), FALSE)

\* An Authorization header: scheme, number of period-separated parts of the token,
\* hdr: what the first part decodes to ("HS256", "HS512" and "none" are objects with
\* that alg, "nonobject" is JSON that is no object, "undecodable" is not base64 JSON,
\* "nonascii" is a token holding a character outside ASCII),
\* and the key the signature part was made with.
Authz(scheme, nparts, hdr, key) == [scheme |-> scheme, nparts |-> nparts, hdr |-> hdr, key |-> key]
NoAuthz == Authz("none", 0, "HS256", "")

\* verify_bearer_jwt(headers, secret): "true", "false", or "raise" where the code
\* reads .get of a decoded header that is no object.
verify_bearer_jwt(headers, secret) ==
    LET a == headers.authz
    IN IF secret = "" THEN "true"
       ELSE IF Lower(a.scheme) # "bearer" THEN "false"
       ELSE IF a.nparts # 3 THEN "false"
       ELSE IF a.hdr = "nonascii" THEN "raise"
       ELSE IF a.hdr = "undecodable" THEN "false"
       ELSE IF a.hdr = "nonobject" THEN "raise"
       ELSE IF a.hdr # "HS256" THEN "false"
       ELSE IF hmac_sha256(a.key, "signing_input") = hmac_sha256(secret, "signing_input")
            THEN "true" ELSE "false"

\* verify_webhook_auth(headers, raw_body, secret)
verify_webhook_auth(headers, raw_body, secret) ==
    IF secret = "" THEN [ok |-> TRUE, source |-> "disabled", raised |-> FALSE]
    ELSE IF verify_hmac_signature(raw_body, headers, secret)
         THEN [ok |-> TRUE, source |-> "hmac", raised |-> FALSE]
    ELSE IF verify_bearer_jwt(headers, secret) = "raise"
         THEN [ok |-> FALSE, source |-> "", raised |-> TRUE]
    ELSE IF verify_bearer_jwt(headers, secret) = "true"
         THEN [ok |-> TRUE, source |-> "jwt", raised |-> FALSE]
    ELSE [ok |-> FALSE, source |-> "missing_or_invalid_signature_or_jwt", raised |-> FALSE]

(***************************************************************************)
(* The requests the model sends                                            *)
(***************************************************************************)
PayloadFields == {"direction", "text", "text_content", "from_number", "to_number",
                  "contact", "id", "call_missed", "missed_call", "call_state",
                  "event_type", "call_id", "call_direction", "duration",
                  "call_duration", "timestamp", "event_timestamp", "created_date",
                  "date_created", "conversation_id", "message_id"}

EmptyPayload == [f \in PayloadFields |-> Absent]

Phone == <<"+14155550123">>

Headers(sig, sig256, authz) == [sig |-> sig, sig256 |-> sig256, authz |-> authz]

ValidHmac == Headers(<<Piece(TRUE, "s3cret", "body")>>, <<>>, NoAuthz)

AuthVariants ==
    { Headers(<<>>, <<>>, NoAuthz),
      ValidHmac,
      Headers(<<Piece(FALSE, "s3cret", "body")>>, <<Piece(TRUE, "s3cret", "body")>>, NoAuthz),
      Headers(<<Piece(TRUE, "wrong", "body")>>, <<>>, NoAuthz),
      Headers(<<Piece(TRUE, "s3cret", "other")>>, <<>>, NoAuthz),
      Headers(<<>>, <<>>, Authz("Bearer", 3, "HS256", "s3cret")),
      Headers(<<>>, <<>>, Authz("Bearer", 3, "HS256", "wrong")),
      Headers(<<>>, <<>>, Authz("Bearer", 3, "none", "s3cret")),
      Headers(<<>>, <<>>, Authz("Bearer", 2, "HS256", "s3cret")),
      Headers(<<>>, <<>>, Authz("Basic", 3, "HS256", "s3cret")),
      Headers(<<>>, <<>>, Authz("Bearer", 3, "nonobject", "s3cret")) }

Directions == {Absent, Str(<<"inbound">>), Str(<<"Inbound">>), Str(<<"outbound">>)}

\* text and text_content together
TextPairs ==
    { <<Absent, Absent>>,
      <<Absent, Str(<<"real", "body">>)>>,
      <<Str(<<" ">>), Absent>>,
      <<Str(<<" ">>), Str(<<"real", "body">>)>>,
      <<Str(<<>>), Absent>>,
      <<Str(<<"hello">>), Absent>>,
      <<Str(<<"Your", "OTP", "is", "552013">>), Absent>>,
      <<Str(<<"552013">>), Absent>>,
      <<Num("12345"), Absent>> }

FromNumbers == {Absent, Str(Phone), List1(Phone), Num("14155550123")}

Contacts == {Absent, Obj(<<"jane">>), Str(<<"jane">>)}

\* The call fields of a payload: none, or those of a missed-call event.
CallFields == { [call_state |-> Absent, event_type |-> Absent, call_id |-> Absent],
                [call_state |-> Str(<<"missed">>), event_type |-> Str(<<"call.missed">>),
                 call_id |-> Str(<<"abc123">>)] }

Payload(dir, tp, from, contact, cf, id) ==
    [EmptyPayload EXCEPT !.direction = dir, !.text = tp[1], !.text_content = tp[2],
                         !.from_number = from, !.to_number = List1(Phone),
                         !.contact = contact, !.id = Str(<<id>>),
                         !.call_state = cf.call_state, !.event_type = cf.event_type,
                         !.call_id = cf.call_id]

CanonicalPayload(id) ==
    Payload(Str(<<"inbound">>), <<Str(<<"hello">>), Absent>>, Str(Phone), Absent,
            [call_state |-> Absent, event_type |-> Absent, call_id |-> Absent], id)

Payloads ==
    {Payload(dir, tp, from, contact, cf, "m1") :
        dir \in Directions, tp \in TextPairs, from \in FromNumbers,
        contact \in Contacts, cf \in CallFields}
    \cup {CanonicalPayload("m2")}

\* A request body: bytes that are no UTF-8, text that is no JSON, JSON that is no
\* object, nothing at all (read as {}), or an object.
Body(kind, data) == [kind |-> kind, data |-> data]

Bodies ==
    {Body(k, EmptyPayload) : k \in {"bad_utf8", "bad_json", "nondict", "empty"}}
    \cup {Body("dict", p) : p \in Payloads}

Request(headers, body) == [headers |-> headers, raw_body |-> "body", body |-> body]

Requests ==
    {Request(h, Body("dict", CanonicalPayload("m1"))) : h \in AuthVariants}
    \cup {Request(ValidHmac, b) : b \in Bodies}

(***************************************************************************)
(* The collaborators of the webhook handler                                *)
(***************************************************************************)
\* handle_sms_webhook(data) of webhook_sqlite: it raises, or returns stored False,
\* or returns stored True with the stored message, whose contact_name may be a
\* cached name.  Storing an event id the store already holds is a silent no-op.
StoreOutcome(raised, stored, contact_name) ==
    [raised |-> raised, stored |-> stored, contact_name |-> contact_name]

handle_sms_webhook(data) ==
    { StoreOutcome(TRUE, FALSE, Absent),
      StoreOutcome(FALSE, FALSE, Absent),
      StoreOutcome(FALSE, TRUE, Absent),
      StoreOutcome(FALSE, TRUE, Str(<<"Unknown">>)),
      StoreOutcome(FALSE, TRUE, Str(<<"Bank">>)) }

store_put(ids, data) == IF data.id.t = "str" THEN ids \cup {data.id.s[1]} ELSE ids

\* What the contact search answers: nothing (or a failure), or a name.
LookupOutcomes == {Null, Str(<<"jane">>), Str(<<"Bank">>)}

\* What urlopen of the hook POST does: it raises, or answers with a status code.
PostOutcomes ==
    {[raised |-> TRUE, code |-> 0]} \cup {[raised |-> FALSE, code |-> c] : c \in {200, 204, 304}}

HttpText(code) ==
    CASE code = 200 -> "http_200" [] code = 204 -> "http_204" [] OTHER -> "http_304"

(***************************************************************************)
(* DialpadWebhookHandler.handle_webhook                                    *)
(*                                                                         *)
(* cur.trace lists the calls the handler made, in order: op is store,      *)
(* lookup (get_contact_name), hook (send_sms_to_openclaw_hooks) or post    *)
(* (the urlopen inside it).  cur.status is the HTTP status sent, 0 when an *)
(* exception left the handler and no response was written.                 *)
(***************************************************************************)
E(op, out) == [op |-> op, out |-> out]

NoBody == [stored |-> "-", hook_forwarded |-> "-", hook_status |-> "-"]
OkBody(hook_forwarded, hook_status) ==
    [stored |-> "true", hook_forwarded |-> hook_forwarded, hook_status |-> hook_status]

Has(trace, op, out) == \E k \in 1..Len(trace) : trace[k] = E(op, out)
Accepted(trace) == \E k \in 1..Len(trace) : trace[k].op = "post" /\ trace[k].out \in {"http_200", "http_204"}

Min(a, b) == IF a < b THEN a ELSE b

\* The handler returns (or is left by an exception): the response and the
\* effects its calls had on the store and on the hook gateway.
Respond(req, status, trace, body) ==
    /\ cur' = [pc |-> "responded", req |-> req, status |-> status, trace |-> trace,
               body |-> body]
    /\ db' = IF Has(trace, "store", "stored") THEN store_put(db, req.body.data) ELSE db
    /\ hookPosts' = IF Accepted(trace) /\ req.body.data.id.t = "str"
                    THEN [hookPosts EXCEPT ![req.body.data.id.s[1]] = Min(@ + 1, MaxPosts)]
                    ELSE hookPosts

Raise(req, trace) == Respond(req, 0, trace, NoBody)

\* send_sms_to_openclaw_hooks(normalized_sms, line_display), after normalize_sms_payload
\* text = data.get("text", data.get("text_content", "")) or ""
NormalizedText(data) ==
    PyOr(GetD(data, "text", GetD(data, "text_content", Str(<<>>))), Str(<<>>))

SendHook(req, data, trace) ==
    IF cfg.hooksToken = ""
    THEN Respond(req, 200, Append(trace, E("hook", "token_missing")),
                 OkBody("false", "token_missing"))
    ELSE IF NormalizedText(data).t # "str"
    THEN \* format_hook_message joins a body that is no string: TypeError
         Raise(req, Append(trace, E("hook", "raised")))
    ELSE \E po \in PostOutcomes :
           LET status == IF po.raised THEN "request_failed" ELSE HttpText(po.code)
               sent == ~po.raised /\ 200 <= po.code /\ po.code < 300
           IN Respond(req, 200, trace \o <<E("post", status), E("hook", status)>>,
                      OkBody(IF sent THEN "true" ELSE "false", status))

\* Lines 725-744: cached contact name, classification, filter, forward.
AfterLookup(req, data, result, trace, looked) ==
    LET from_num == PyOr(first_value(Get(data, "from_number")), Str(<<"N/A">>))
        text == extract_message_text(data)
        cached == result.contact_name
        contact_info == IF ~Truthy(looked) /\ Truthy(cached) /\ cached # Str(<<"Unknown">>)
                        THEN cached ELSE looked
        notification_type == classify_inbound_notification(data)
    IN IF notification_type = "missed_call"
       THEN Respond(req, 200, trace, OkBody("false", "filtered_missed_call"))
       ELSE IF notification_type = "blank_sms"
       THEN Respond(req, 200, trace, OkBody("false", "filtered_blank_sms"))
       ELSE IF is_sensitive_message(text, PyStr(PyOr(contact_info, Str(<<>>))), PyStr(from_num))
       THEN Respond(req, 200, trace, OkBody("false", "filtered_sensitive"))
       ELSE IF ~Truthy(contact_info) /\ Truthy(data.contact) /\ data.contact.t # "dict"
       THEN \* normalize_sms_payload reads .get of a contact that is no object
            Raise(req, trace)
       ELSE SendHook(req, data, trace)

\* Line 698 with "inbound" as the default of a missing direction: a faulty variant.
HandlerDirectionDefaultInbound(data) ==
    LowerSeq(PyStr(GetD(data, "direction", Str(<<"inbound">>))))

\* direction = str(data.get("direction", "unknown")).lower()
HandlerDirection(data) == LowerSeq(PyStr(GetD(data, "direction", Str(<<"unknown">>))))

\* Lines 718-772: forward an inbound SMS, then answer 200.
Forward(req, data, result, trace) ==
    LET from_num == PyOr(first_value(Get(data, "from_number")), Str(<<"N/A">>))
    IN IF HandlerDirection(data) # <<"inbound">>
       THEN Respond(req, 200, trace, OkBody("null", "null"))
       ELSE IF cfg.apiKey = ""
       THEN AfterLookup(req, data, result, trace, Null)
       ELSE IF from_num.t # "str"
       THEN \* get_contact_name: urllib.parse.quote of a value that is no string
            Raise(req, Append(trace, E("lookup", "raised")))
       ELSE \E looked \in LookupOutcomes :
              AfterLookup(req, data, result,
                          Append(trace, E("lookup", IF Truthy(looked) THEN "name" ELSE "none")),
                          looked)

\* The storage step taking any returned result for a stored one: a faulty variant.
StoreThenForwardIgnoringStored(req, data) ==
    \E result \in handle_sms_webhook(data) :
        IF result.raised THEN Respond(req, 500, <<E("store", "raised")>>, NoBody)
        ELSE Forward(req, data, result,
                     <<E("store", IF result.stored THEN "stored" ELSE "not_stored")>>)

\* Lines 703-716: store the message; a failure answers 500.
StoreThenForward(req, data) ==
    \E result \in handle_sms_webhook(data) :
        IF result.raised THEN Respond(req, 500, <<E("store", "raised")>>, NoBody)
        ELSE IF ~result.stored THEN Respond(req, 500, <<E("store", "not_stored")>>, NoBody)
        ELSE Forward(req, data, result, <<E("store", "stored")>>)

\* Lines 688-701: decode and parse the body.
ParseThenStore(req) ==
    IF req.body.kind = "bad_utf8" THEN Raise(req, <<>>)
    ELSE IF req.body.kind = "bad_json" THEN Respond(req, 400, <<>>, NoBody)
    ELSE IF req.body.kind = "nondict" THEN Raise(req, <<>>)
    ELSE StoreThenForward(req, req.body.data)

\* handle_webhook with the rejection of an unauthenticated request left out: a faulty variant.
handle_webhook_unchecked(req) ==
    LET auth == verify_webhook_auth(req.headers, req.raw_body, cfg.secret)
    IN IF auth.raised THEN Raise(req, <<>>) ELSE ParseThenStore(req)

\* handle_webhook: authenticate, then the rest.
handle_webhook(req) ==
    LET auth == verify_webhook_auth(req.headers, req.raw_body, cfg.secret)
    IN IF auth.raised THEN Raise(req, <<>>)
       ELSE IF ~auth.ok THEN Respond(req, 401, <<>>, NoBody)
       ELSE ParseThenStore(req)

\* POST /webhook/dialpad arrives while the server is idle.
HandleWebhook ==
    /\ cur = Idle
    /\ \E req \in Requests : handle_webhook(req)
    /\ UNCHANGED <<cfg, pvars>>

\* The handler is done; serve_forever takes the next request.
ServeNext ==
    /\ cur # Idle
    /\ cur' = Idle
    /\ UNCHANGED <<cfg, pvars, db, hookPosts>>

InitWebhook ==
    /\ cfg \in Cfgs
    /\ PollerIdle
    /\ WebhookIdle

NextWebhook == HandleWebhook \/ ServeNext

SpecWebhook == InitWebhook /\ [][NextWebhook]_vars

(***************************************************************************)
(* classify_inbound_notification on its own, over a wider set of payloads  *)
(***************************************************************************)
ClassifyTexts ==
    { <<Absent, Absent>>, <<Str(<<" ">>), Absent>>, <<Str(<<"hello">>), Absent>>,
      <<Absent, Str(<<"real", "body">>)>>, <<Null, Str(<<" ">>)>> }

ClassifyFromNumbers ==
    {Absent, Null, Str(<<>>), Str(<<" ">>), Str(Phone), List1(Phone), EmptyList,
     Num("14155550123")}

ClassifyEventTypes ==
    { Absent, Str(<<"sms.received">>), Str(<<"call.missed">>), Str(<<"call.no_answer">>),
      Str(<<"call.ended">>), Str(<<"missed_call">>) }

ClassifyCallStates == {Absent, Str(<<"Missed">>), Str(<<"ringing">>)}

ClassifyPayloads ==
    { [EmptyPayload EXCEPT !.direction = dir, !.text = tp[1], !.text_content = tp[2],
                           !.from_number = from, !.call_missed = cm, !.missed_call = mc,
                           !.call_state = cs, !.event_type = et, !.call_id = ci] :
        dir \in Directions, tp \in ClassifyTexts, from \in ClassifyFromNumbers,
        cm \in {Absent, True, False}, mc \in {Absent, True},
        cs \in ClassifyCallStates, et \in ClassifyEventTypes,
        ci \in {Absent, Str(<<"abc123">>)} }

\* classify_inbound_notification(data) is called on the payload at hand.
Classify ==
    /\ cur.pc = "payload"
    /\ cur' = [pc |-> "classified", data |-> cur.data,
               tag |-> classify_inbound_notification(cur.data)]
    /\ UNCHANGED <<cfg, pvars, db, hookPosts>>

InitClassify ==
    /\ cfg \in PollerCfgs
    /\ PollerIdle
    /\ db = {}
    /\ hookPosts = [e \in EventIds |-> 0]
    /\ cur \in {[pc |-> "payload", data |-> p] : p \in ClassifyPayloads}

NextClassify == Classify

SpecClassify == InitClassify /\ [][NextClassify]_vars

(***************************************************************************)
(* The authentication functions on their own, over a wider set of headers  *)
(***************************************************************************)
SigPieces ==
    {PieceF(f, u, TRUE, "s3cret", "body") :
        f \in {"raw", "sha256=", "v1:", "sha256=v1:", "v1"}, u \in BOOLEAN}
    \cup { PieceF("raw", FALSE, TRUE, "wrong", "body"),
           PieceF("sha256=", FALSE, TRUE, "s3cret", "bodx"),
           PieceF("raw", FALSE, FALSE, "s3cret", "body") }

\* Values of X-Dialpad-Signature: absent, or one or two comma-separated pieces.
SigHeaders == {<<>>} \cup {<<a>> : a \in SigPieces} \cup {<<a, b>> : a, b \in SigPieces}

\* Values of X-Dialpad-Signature-SHA256
Sig256Headers ==
    { <<>>, <<PieceF("sha256=", FALSE, TRUE, "s3cret", "body")>>,
      <<PieceF("raw", FALSE, TRUE, "wrong", "body")>> }

AuthzHeaders ==
    { NoAuthz,
      Authz("Bearer", 3, "HS256", "s3cret"),
      Authz("bearer", 3, "HS256", "s3cret"),
      Authz("Bearer", 3, "HS256", "wrong"),
      Authz("Bearer", 3, "HS512", "s3cret"),
      Authz("Bearer", 3, "none", "s3cret"),
      Authz("Bearer", 2, "HS256", "s3cret"),
      Authz("Bearer", 3, "undecodable", "s3cret"),
      Authz("Bearer", 3, "nonobject", "s3cret"),
      Authz("Bearer", 3, "nonascii", "s3cret"),
      Authz("Basic", 3, "HS256", "s3cret") }

AuthInputs ==
    {[pc |-> "request", headers |-> Headers(sig, sig256, authz), raw_body |-> b] :
        sig \in SigHeaders, sig256 \in Sig256Headers, authz \in AuthzHeaders,
        b \in {"body", "bodx"}}

\* The three verification functions are called on the request at hand.
Authenticate ==
    /\ cur.pc = "request"
    /\ cur' = [pc |-> "authenticated", headers |-> cur.headers, raw_body |-> cur.raw_body,
               hmac |-> verify_hmac_signature(cur.raw_body, cur.headers, cfg.secret),
               jwt |-> verify_bearer_jwt(cur.headers, cfg.secret),
               auth |-> verify_webhook_auth(cur.headers, cur.raw_body, cfg.secret)]
    /\ UNCHANGED <<cfg, pvars, db, hookPosts>>

InitAuth ==
    /\ cfg \in {c \in Cfgs : c.apiKey = "" /\ c.hooksToken = ""}
    /\ PollerIdle
    /\ db = {}
    /\ hookPosts = [e \in EventIds |-> 0]
    /\ cur \in AuthInputs

NextAuth == Authenticate

SpecAuth == InitAuth /\ [][NextAuth]_vars

(***************************************************************************)
(* The other POST endpoints: /store, /webhook/dialpad-call and             *)
(* /webhook/dialpad-voicemail.  cur.path names the endpoint, cur.trace     *)
(* lists its calls (op store, lookup, telegram), cur.resp is the JSON body *)
(* of a 200 answer.                                                        *)
(***************************************************************************)
\* Configuration with DIALPAD_TELEGRAM_BOT_TOKEN and DIALPAD_TELEGRAM_CHAT_ID
\* (telegram is "" when either is unset).
EndpointCfgs ==
    {[apiKey |-> c.apiKey, secret |-> c.secret, hooksToken |-> c.hooksToken, telegram |-> t] :
        c \in Cfgs, t \in {"", "bot"}}

NoCallFields == [call_state |-> Absent, event_type |-> Absent, call_id |-> Absent]

CallPayloads ==
    {[Payload(dir, <<Absent, Absent>>, from, Absent, NoCallFields, "m1")
         EXCEPT !.call_direction = cdir, !.call_missed = cm, !.duration = dur] :
        dir \in {Absent, Str(<<"inbound">>), Str(<<"Inbound">>)},
        cdir \in {Absent, Str(<<"outbound">>)},
        from \in {Absent, Str(Phone), List1(Phone)},
        cm \in {Absent, True},
        dur \in {Absent, Num("30"), Str(<<"hello">>)}}

CanonicalCall == Payload(Str(<<"inbound">>), <<Absent, Absent>>, Str(Phone), Absent,
                         NoCallFields, "m1")

CallBodies ==
    {Body(k, EmptyPayload) : k \in {"bad_utf8", "bad_json", "nondict", "empty"}}
    \cup {Body("dict", p) : p \in CallPayloads}

EndpointHeaders ==
    { Headers(<<>>, <<>>, NoAuthz), ValidHmac,
      Headers(<<Piece(TRUE, "wrong", "body")>>, <<>>, NoAuthz) }

EndpointRequests ==
    {Request(h, Body("dict", CanonicalCall)) : h \in EndpointHeaders}
    \cup {Request(ValidHmac, b) : b \in CallBodies}

\* The handler of an endpoint returns (or is left by an exception).
Answer(path, req, status, trace, resp) ==
    /\ cur' = [pc |-> "answered", path |-> path, req |-> req, status |-> status,
               trace |-> trace, resp |-> resp]
    /\ db' = IF Has(trace, "store", "stored") THEN store_put(db, req.body.data) ELSE db
    /\ hookPosts' = hookPosts

NoResp == [flag |-> "-", telegram_sent |-> "-"]

\* send_to_telegram(text), then the 200 answer of the call and voicemail handlers
SendTelegramThenAnswer(path, req, trace) ==
    IF cfg.telegram = ""
    THEN Answer(path, req, 200, Append(trace, E("telegram", "not_configured")),
                [flag |-> "true", telegram_sent |-> "false"])
    ELSE \E sent \in BOOLEAN :
           Answer(path, req, 200,
                  Append(trace, E("telegram", IF sent THEN "sent" ELSE "failed")),
                  [flag |-> "true", telegram_sent |-> IF sent THEN "true" ELSE "false"])

\* Lines 807-832 and 870-904: the sender, its contact name, the Telegram message.
\* from_num = data.get("from_number") or "Unknown"; get_contact_name(from_num)
\* quotes it, which raises for a value that is no string.
LookupThenTelegram(path, req, data) ==
    LET from_num == PyOr(Get(data, "from_number"), Str(<<"Unknown">>))
    IN IF from_num = Str(<<"Unknown">>) \/ cfg.apiKey = ""
       THEN SendTelegramThenAnswer(path, req, <<>>)
       ELSE IF from_num.t # "str"
       THEN Answer(path, req, 0, <<E("lookup", "raised")>>, NoResp)
       ELSE \E looked \in LookupOutcomes :
              SendTelegramThenAnswer(path, req,
                  <<E("lookup", IF Truthy(looked) THEN "name" ELSE "none")>>)

\* Lines 788-803 of handle_call_webhook.  int(float(raw_duration)) is 0 for a
\* missing duration and for one that does not parse (the strings of the model do not).
should_notify(data) ==
    LET direction == GetD(data, "call_direction", GetD(data, "direction", Str(<<"unknown">>)))
        raw_duration == GetD(data, "duration", GetD(data, "call_duration", Absent))
        duration_zero == raw_duration.t # "num"
        call_state == LowerSeq(PyStr(GetD(data, "call_state", Str(<<>>))))
    IN /\ direction = Str(<<"inbound">>)
       /\ (data.call_missed.t = "true" \/ duration_zero \/ call_state = <<"missed">>)

\* Decode and parse the body as the three handlers do (lines 653-660, 779-786, 861-868).
ParsedOr(path, req, rest) ==
    IF req.body.kind = "bad_utf8" THEN Answer(path, req, 0, <<>>, NoResp)
    ELSE IF req.body.kind = "bad_json" THEN Answer(path, req, 400, <<>>, NoResp)
    ELSE rest

\* DialpadWebhookHandler.handle_store
handle_store(req) ==
    ParsedOr("/store", req,
        \E result \in handle_sms_webhook(req.body.data) :
            IF result.raised THEN Answer("/store", req, 500, <<E("store", "raised")>>, NoResp)
            ELSE IF ~result.stored
            THEN Answer("/store", req, 500, <<E("store", "not_stored")>>, NoResp)
            ELSE Answer("/store", req, 200, <<E("store", "stored")>>, NoResp))

\* DialpadWebhookHandler.handle_call_webhook
handle_call_webhook(req) ==
    ParsedOr("/webhook/dialpad-call", req,
        IF req.body.kind = "nondict" THEN Answer("/webhook/dialpad-call", req, 0, <<>>, NoResp)
        ELSE IF should_notify(req.body.data)
        THEN LookupThenTelegram("/webhook/dialpad-call", req, req.body.data)
        ELSE Answer("/webhook/dialpad-call", req, 200, <<>>,
                    [flag |-> "false", telegram_sent |-> "null"]))

\* DialpadWebhookHandler.handle_voicemail_webhook
handle_voicemail_webhook(req) ==
    ParsedOr("/webhook/dialpad-voicemail", req,
        IF req.body.kind = "nondict"
        THEN Answer("/webhook/dialpad-voicemail", req, 0, <<>>, NoResp)
        ELSE LookupThenTelegram("/webhook/dialpad-voicemail", req, req.body.data))

\* POST /store, /webhook/dialpad-call or /webhook/dialpad-voicemail arrives.
HandleStore ==
    /\ cur = Idle
    /\ \E req \in EndpointRequests : handle_store(req)
    /\ UNCHANGED <<cfg, pvars>>

HandleCallWebhook ==
    /\ cur = Idle
    /\ \E req \in EndpointRequests : handle_call_webhook(req)
    /\ UNCHANGED <<cfg, pvars>>

HandleVoicemailWebhook ==
    /\ cur = Idle
    /\ \E req \in EndpointRequests : handle_voicemail_webhook(req)
    /\ UNCHANGED <<cfg, pvars>>

InitEndpoints ==
    /\ cfg \in EndpointCfgs
    /\ PollerIdle
    /\ WebhookIdle

\* do_POST dispatches on the path.
NextEndpoints ==
    HandleWebhook \/ HandleStore \/ HandleCallWebhook \/ HandleVoicemailWebhook \/ ServeNext

SpecEndpoints == InitEndpoints /\ [][NextEndpoints]_vars

(***************************************************************************)
(* The Markdown messages sent to Telegram.  A message is a sequence of     *)
(* tokens [ch, data]: ch is a character, or a piece of the message         *)
(* template; data says the token came from the event.                      *)
(***************************************************************************)
\* "backtick" stands for the grave accent
MarkdownSpecials == {"_", "*", "backtick", "["}
TextChars == {"a"} \cup MarkdownSpecials

D(ch) == [ch |-> ch, data |-> TRUE]
T(ch) == [ch |-> ch, data |-> FALSE]

\* An untrusted text of the event, as tokens
DataTexts(n) == UNION {[1..k -> {D(c) : c \in TextChars}] : k \in 0..n}

\* The backslash escape_markdown puts before a character
Backslash == T("backslash")

\* escaped.replace(ch, backslash + ch)
RECURSIVE Replace(_, _)
Replace(text, ch) ==
    IF text = <<>> THEN <<>>
    ELSE IF Head(text).ch = ch THEN <<Backslash, Head(text)>> \o Replace(Tail(text), ch)
    ELSE <<Head(text)>> \o Replace(Tail(text), ch)

\* escape_markdown(text) of poll_voicemails.py
escape_markdown(text) == Replace(Replace(Replace(Replace(text, "_"), "*"), "backtick"), "[")

Unknown == <<T("Unknown")>>

\* build_notification(call) of poll_voicemails.py: contact.name, external_number,
\* internal_number (shown as it is when get_line_name finds no digits in it)
\* and transcription_text go through escape_markdown.
build_notification(call) ==
    LET from_num == IF call.from = <<>> THEN Unknown ELSE call.from
        to_display == IF call.to = <<>> THEN Unknown ELSE call.to
        from_display ==
            IF call.name # <<>>
            THEN <<T("*")>> \o escape_markdown(call.name) \o <<T("* ("), T("backtick")>>
                   \o escape_markdown(from_num) \o <<T("backtick"), T(")")>>
            ELSE <<T("backtick")>> \o escape_markdown(from_num) \o <<T("backtick")>>
    IN <<T("*New Voicemail* *To:* ")>> \o escape_markdown(to_display)
         \o <<T(" *From:* ")>> \o from_display \o <<T(" *Duration:* 0s")>>
         \o (IF call.transcription = <<>> THEN <<>>
             ELSE <<T(" *Transcription:* _")>> \o escape_markdown(call.transcription)
                    \o <<T("_")>>)

\* from_display of handle_call_webhook and handle_voicemail_webhook (lines 818-823,
\* 878-883): the contact name and the number are interpolated as they are.
from_display_of(event) ==
    IF event.name # <<>>
    THEN <<T("*")>> \o event.name \o <<T("* ("), T("backtick")>> \o event.from \o <<T("backtick"), T(")")>>
    ELSE IF event.from = <<>> THEN Unknown
    ELSE <<T("backtick")>> \o event.from \o <<T("backtick")>>

\* tg_text of handle_call_webhook (lines 826-831); the line display is built by
\* get_line_name from digits and the configured line names.
call_tg_text(event) ==
    <<T("*Missed Call* *To:* "), T("(415) 555-0123"), T(" *From:* ")>>
      \o from_display_of(event) \o <<T(" *Time:* 9:41 AM")>>

\* tg_text of handle_voicemail_webhook (lines 890-902)
voicemail_tg_text(event) ==
    <<T("*New Voicemail* *To:* "), T("(415) 555-0123"), T(" *From:* ")>>
      \o from_display_of(event) \o <<T(" *Duration:* 0s")>>
      \o (IF event.transcription = <<>> THEN <<>>
          ELSE <<T(" *Transcription:* _")>> \o event.transcription \o <<T("_")>>)

MaxName == 2    \* characters of a contact name
MaxField == 1   \* characters of a number or a transcription

MarkdownEvents ==
    [name : DataTexts(MaxName), from : DataTexts(MaxField), to : DataTexts(MaxField),
     transcription : DataTexts(MaxField)]

BuildNotification ==
    /\ cur.pc = "event"
    /\ cur' = [pc |-> "message", sender |-> "poller", event |-> cur.event,
               text |-> build_notification(cur.event)]
    /\ UNCHANGED <<cfg, pvars, db, hookPosts>>

CallAlert ==
    /\ cur.pc = "event"
    /\ cur.event.to = <<>> /\ cur.event.transcription = <<>>
    /\ cur' = [pc |-> "message", sender |-> "call", event |-> cur.event,
               text |-> call_tg_text(cur.event)]
    /\ UNCHANGED <<cfg, pvars, db, hookPosts>>

VoicemailAlert ==
    /\ cur.pc = "event"
    /\ cur.event.to = <<>>
    /\ cur' = [pc |-> "message", sender |-> "voicemail", event |-> cur.event,
               text |-> voicemail_tg_text(cur.event)]
    /\ UNCHANGED <<cfg, pvars, db, hookPosts>>

InitMarkdown ==
    /\ cfg \in PollerCfgs
    /\ PollerIdle
    /\ db = {}
    /\ hookPosts = [e \in EventIds |-> 0]
    /\ cur \in {[pc |-> "event", event |-> ev] : ev \in MarkdownEvents}

NextMarkdown == BuildNotification \/ CallAlert \/ VoicemailAlert

SpecMarkdown == InitMarkdown /\ [][NextMarkdown]_vars

(***************************************************************************)
(* Helper functions of webhook_server.py, each applied to one input.       *)
(***************************************************************************)
MAX_BODY_SIZE == 1048576

\* A Content-Length header: absent, the decimal text of the integer n, or a
\* text that is no integer.
ContentLengths ==
    {[form |-> "absent", n |-> 0], [form |-> "text", n |-> 0]}
        \cup {[form |-> "integer", n |-> n] :
                n \in {-1, 0, 5, MAX_BODY_SIZE, MAX_BODY_SIZE + 1, 3 * MAX_BODY_SIZE}}

\* The bytes the client sends after the headers before it closes its side.
SentSizes == {0, 5, MAX_BODY_SIZE, 2 * MAX_BODY_SIZE}

PostPaths == {"/store", "/webhook/dialpad", "/webhook/dialpad-call", "/webhook/dialpad-voicemail"}

\* rfile.read(size): a negative size reads until the end of the stream.
rfile_read(size, sent) == IF size < 0 THEN sent ELSE Min(size, sent)

\* content_length = min(int(headers.get("Content-Length", 0)), MAX_BODY_SIZE);
\* rfile.read(content_length).  int() of a text that is no integer raises
\* before anything is read.
read_body(header, sent) ==
    IF header.form = "text"
    THEN [raised |-> TRUE, read |-> 0]
    ELSE [raised |-> FALSE,
          read |-> rfile_read(Min(IF header.form = "absent" THEN 0 ELSE header.n,
                                  MAX_BODY_SIZE), sent)]

ReadBody ==
    /\ cur.pc = "request"
    /\ cur' = [pc |-> "read", path |-> cur.path, header |-> cur.header, sent |-> cur.sent,
               body |-> read_body(cur.header, cur.sent)]
    /\ UNCHANGED <<cfg, pvars, db, hookPosts>>

IsDigit(ch) == ch \in {"0", "1", "2", "3", "4", "5", "6", "7", "8", "9"}

\* normalize_phone_number(phone_number): a Str of digits, or Null
normalize_phone_number(phone_number) ==
    IF ~Truthy(phone_number) THEN Null
    ELSE LET all == SelectSeq(PyStr(phone_number), IsDigit)
             digits == IF Len(all) = 11 /\ Head(all) = "1" THEN Tail(all) ELSE all
         IN IF all = <<>> THEN Null
            ELSE IF Len(digits) >= 10 THEN Str(SubSeq(digits, Len(digits) - 9, Len(digits)))
            ELSE Str(digits)

\* build_hook_session_key with message_id tried first: a faulty variant.
build_hook_session_key_message_first(normalized_sms) ==
    <<"hook:dialpad:sms:">> \o
        PyStr(PyOr(Get(normalized_sms, "message_id"),
                   PyOr(Get(normalized_sms, "conversation_id"),
                        PyOr(normalize_phone_number(Get(normalized_sms, "sender_number")),
                             Str(<<"unknown">>)))))

\* build_hook_session_key(normalized_sms)
build_hook_session_key(normalized_sms) ==
    <<"hook:dialpad:sms:">> \o
        PyStr(PyOr(Get(normalized_sms, "conversation_id"),
                   PyOr(Get(normalized_sms, "message_id"),
                        PyOr(normalize_phone_number(Get(normalized_sms, "sender_number")),
                             Str(<<"unknown">>)))))

\* Sender numbers, character by character: "+1 (415) 555-0123", 10, 11 and 13
\* digits, 11 digits that start with 2, 7 digits, no digit, empty, a list, a number
SenderNumbers ==
    { Absent, Null, Str(<<>>), Str(<<"n", "/", "a">>),
      Str(<<"+", "1", " ", "(", "4", "1", "5", ")", " ", "5", "5", "5", "-", "0", "1", "2", "3">>),
      Str(<<"4", "1", "5", "5", "5", "5", "0", "1", "2", "3">>),
      Str(<<"0", "0", "1", "4", "1", "5", "5", "5", "5", "0", "1", "2", "3">>),
      Str(<<"2", "4", "1", "5", "5", "5", "5", "0", "1", "2", "3">>),
      Str(<<"1", "5", "5", "0", "1", "2", "3">>),
      List1(<<"+", "1", "4", "1", "5", "5", "5", "5", "0", "1", "2", "3">>),
      V("num", <<"1", "4", "1", "5", "5", "5", "5", "0", "1", "2", "3">>) }

KeyIds == {Absent, Null, Str(<<>>), Str(<<"conv-1">>), V("num", <<"7">>)}

SessionKey ==
    /\ cur.pc = "sms"
    /\ cur' = [pc |-> "keyed", sms |-> cur.sms, key |-> build_hook_session_key(cur.sms)]
    /\ UNCHANGED <<cfg, pvars, db, hookPosts>>

\* normalize_sms_payload(data, contact_info).  raised: .get on a contact
\* that is neither an object nor falsy.
normalize_sms_payload(data, contact_info) ==
    LET sender_number == Get(data, "from_number")
        contact == GetD(data, "contact", Obj(<<>>))
        contact_name == IF Truthy(contact_info) THEN contact_info
                        ELSE IF Truthy(contact) THEN Str(contact.s) ELSE Null
    IN [raised |-> ~Truthy(contact_info) /\ Truthy(contact) /\ contact.t # "dict",
        sender |-> PyOr(contact_name, PyOr(sender_number, Str(<<"Unknown">>))),
        sender_number |-> sender_number,
        recipient_number |-> first_value(Get(data, "to_number")),
        text |-> NormalizedText(data),
        timestamp |-> PyOr(PyOr(PyOr(Get(data, "timestamp"), Get(data, "event_timestamp")),
                                Get(data, "created_date")), Get(data, "date_created")),
        conversation_id |-> Get(data, "conversation_id"),
        message_id |-> PyOr(Get(data, "message_id"), Get(data, "id")),
        direction |-> GetD(data, "direction", Str(<<"unknown">>))]

NumberValues == {Absent, Null, Str(Phone), List1(Phone), EmptyList}

NormalizeInputs ==
    {[pc |-> "payload", contact_info |-> ci,
      data |-> [EmptyPayload EXCEPT !.from_number = f, !.to_number = t, !.text = x,
                                    !.text_content = y, !.timestamp = ts, !.contact = c]] :
        ci \in {Null, Str(<<"Jane Doe">>)}, f \in NumberValues, t \in NumberValues,
        x \in {Absent, Null, Str(<<>>), Str(<<"hello">>), Num("12345"), List1(<<"a">>)},
        y \in {Absent, Str(<<"real", "body">>)},
        ts \in {Absent, Num("1760000000000"), Str(<<"garbage">>)},
        c \in {Absent, Obj(<<"jane">>), Str(<<"jane">>)}}

Normalize ==
    /\ cur.pc = "payload"
    /\ cur' = [pc |-> "normalized", data |-> cur.data, contact_info |-> cur.contact_info,
               sms |-> normalize_sms_payload(cur.data, cur.contact_info)]
    /\ UNCHANGED <<cfg, pvars, db, hookPosts>>

MaxWords == 3

SensitiveWords == {" ", "hello", "Verification", "verification", "552013", "123", "code", "Bank"}
SensitiveTexts == UNION {[1..k -> SensitiveWords] : k \in 0..MaxWords}

\* is_sensitive_message(text=..., sender=..., contact_number=...)
Sensitive ==
    /\ cur.pc = "text"
    /\ cur' = [pc |-> "sensitive", text |-> cur.text, sender |-> cur.sender,
               contact_number |-> cur.contact_number,
               result |-> is_sensitive_message(cur.text, cur.sender, cur.contact_number)]
    /\ UNCHANGED <<cfg, pvars, db, hookPosts>>

HelperInputs ==
    {[pc |-> "request", path |-> p, header |-> h, sent |-> n] :
        p \in PostPaths, h \in ContentLengths, n \in SentSizes}
    \cup {[pc |-> "text", text |-> t, sender |-> f, contact_number |-> c] :
            t \in SensitiveTexts, f \in {<<>>, <<"OTP">>, <<"hello">>}, c \in {<<>>, Phone}}
    \cup {[pc |-> "sms", sms |-> [conversation_id |-> c, message_id |-> m, sender_number |-> n]] :
            c \in KeyIds, m \in KeyIds, n \in SenderNumbers}
    \cup NormalizeInputs

InitHelpers ==
    /\ cfg \in PollerCfgs
    /\ PollerIdle
    /\ db = {}
    /\ hookPosts = [e \in EventIds |-> 0]
    /\ cur \in HelperInputs

NextHelpers == ReadBody \/ Sensitive \/ SessionKey \/ Normalize

SpecHelpers == InitHelpers /\ [][NextHelpers]_vars

(***************************************************************************)
(* scripts/call_lookup.py and list_calls.py: the call tools                *)
(***************************************************************************)
\* A timestamp field of a call: absent, the number n ("number"), or a string:
\* the decimal text of n ("numbertext"), an ISO date whose POSIX time is n
\* ("iso"), the text -inf ("-inf"), or a text that is no timestamp ("other").
Ts(form, n) == [form |-> form, n |-> n]
NoTs == Ts("absent", 0)

\* A float (inf = -1 is float("-inf")) or None.
Float(n) == [some |-> TRUE, inf |-> 0, n |-> n]
NegInf == [some |-> TRUE, inf |-> -1, n |-> 0]
None == [some |-> FALSE, inf |-> 0, n |-> 0]
FloatLess(a, b) == a.inf < b.inf \/ (a.inf = b.inf /\ a.n < b.n)

\* _parse_timestamp(value): float(value), float(stripped) or fromisoformat
parse_timestamp(value) ==
    CASE value.form \in {"number", "numbertext", "iso"} -> Float(value.n)
      [] value.form = "-inf" -> NegInf
      [] OTHER -> None

time_fields == <<"date_started", "started_at", "start_time", "date_created", "date">>

\* _call_sort_key(call, original_index): (ts, -original_index)
call_sort_key(call, original_index) ==
    LET ts_candidates == {parse_timestamp(call[time_fields[k]]) : k \in 1..Len(time_fields)} \ {None}
        ts == IF ts_candidates = {} THEN NegInf
              ELSE CHOOSE m \in ts_candidates : \A o \in ts_candidates : ~FloatLess(m, o)
    IN [ts |-> ts, neg_index |-> 0 - original_index]

\* _extract_strings(value), over the values a field takes in the model
extract_strings(value) ==
    IF value.t \in {"str", "num", "list", "dict", "true", "false"} THEN {value.s} ELSE {}

\* _call_text_fields(call)
call_text_fields(call) ==
    UNION {extract_strings(call[f]) : f \in {"external_number", "from_number", "to_number", "contact"}}

\* needle in text
Contains(text, needle) ==
    \E i \in 0..(Len(text) - Len(needle)) : \A k \in 1..Len(needle) : text[i + k] = needle[k]

\* The filter of select_call without needle.lower(): a faulty variant.
call_matches_needle_as_typed(call, with_value) ==
    \E text \in call_text_fields(call) : Contains(LowerSeq(text), with_value)

\* any(needle in text.lower() for text in _call_text_fields(call))
call_matches(call, with_value) ==
    \E text \in call_text_fields(call) : Contains(LowerSeq(text), LowerSeq(with_value))

\* select_call(calls, with_value): <<>> is None.  sorted(..., reverse=True)[0]
\* is the entry with the greatest key; the keys differ in their index.
select_call(calls, with_value) ==
    LET Test(call) == call_matches(call, with_value.s)
        selected == IF with_value.some /\ with_value.s # <<>>
                    THEN SelectSeq(calls, Test) ELSE calls
        key(i) == call_sort_key(selected[i], i - 1)
        less(a, b) == FloatLess(a.ts, b.ts) \/ (a.ts = b.ts /\ a.neg_index < b.neg_index)
    IN IF selected = <<>> THEN <<>>
       ELSE <<selected[CHOOSE i \in 1..Len(selected) :
                          \A j \in 1..Len(selected) : j # i => less(key(j), key(i))]>>

MAX_PAGES == 20

\* A duration field: absent, the number n, or a text that float() rejects
Dur(form, n) == [form |-> form, n |-> n]

\* list_calls.normalize_duration(call): the first of duration, total_duration
\* that float(str(value)) accepts; above 10000 it is divided by 1000.
normalize_duration(call) ==
    LET usable == {k \in {"duration", "total_duration"} : call[k].form = "number"}
        raw == IF "duration" \in usable THEN call.duration.n ELSE call.total_duration.n
    IN IF usable = {} THEN 0
       ELSE IF raw > 10000 THEN raw \div 1000
       ELSE IF raw > 0 THEN raw ELSE 0

\* list_calls.infer_status(call)
infer_status(call) ==
    IF call.state.t = "str" /\ LowerSeq(call.state.s) = <<"missed">> THEN "missed"
    ELSE IF call.state.t = "str" /\ LowerSeq(call.state.s) = <<"answered">> THEN "answered"
    ELSE IF normalize_duration(call) > 0 THEN "answered"
    ELSE "missed"

\* The loop of list_calls.fetch_calls from request number page on; a request
\* past the last response of the model is answered with no items.
RECURSIVE fetch_pages(_, _, _, _)
fetch_pages(responses, page, calls, limit) ==
    IF page > MAX_PAGES \/ page > Len(responses) \/ responses[page].items = <<>> THEN calls
    ELSE LET extended == calls \o responses[page].items
         IN IF Len(extended) >= limit \/ ~responses[page].cursor THEN extended
            ELSE fetch_pages(responses, page + 1, extended, limit)

\* list_calls.fetch_calls(started_after, started_before, limit): calls[:limit]
fetch_calls(responses, limit) ==
    LET calls == fetch_pages(responses, 1, <<>>, limit)
    IN SubSeq(calls, 1, Min(limit, Len(calls)))

\* list_calls.main: the calls behind the rows, filtered by --missed
list_calls_main(responses, limit, missed) ==
    LET raw_calls == fetch_calls(responses, limit)
        IsMissed(call) == infer_status(call) = "missed"
    IN IF missed THEN SelectSeq(raw_calls, IsMissed) ELSE raw_calls

MaxResponses == 2
MaxPageItems == 1
MaxLimit == 2

ListedCall(state, duration) ==
    [state |-> state, duration |-> Dur("number", duration), total_duration |-> Dur("absent", 0)]
ListedCalls ==
    {ListedCall(Str(<<"Missed">>), 0), ListedCall(Str(<<"answered">>), 8000), ListedCall(Absent, 0)}
Pages ==
    {[items |-> i, cursor |-> c] :
        i \in UNION {[1..k -> ListedCalls] : k \in 0..MaxPageItems}, c \in BOOLEAN}
Responses == UNION {[1..k -> Pages] : k \in 0..MaxResponses}

Durations ==
    {Dur("absent", 0), Dur("text", 0)}
        \cup {Dur("number", n) : n \in {-5, 0, 999, 5000, 9000, 10000, 10001, 120000}}

ListCalls ==
    /\ cur.pc = "responses"
    /\ cur' = [pc |-> "listed", responses |-> cur.responses, limit |-> cur.limit,
               missed |-> cur.missed,
               rows |-> list_calls_main(cur.responses, cur.limit, cur.missed)]
    /\ UNCHANGED <<cfg, pvars, db, hookPosts>>

NormalizeDuration ==
    /\ cur.pc = "call"
    /\ cur' = [pc |-> "duration", call |-> cur.call, seconds |-> normalize_duration(cur.call)]
    /\ UNCHANGED <<cfg, pvars, db, hookPosts>>

MaxListed == 2

LookupCall(ext, from, to, contact, started, created) ==
    [call_id |-> 0, external_number |-> ext, from_number |-> from, to_number |-> to,
     contact |-> contact, date_started |-> started, started_at |-> NoTs,
     start_time |-> NoTs, date_created |-> created, date |-> NoTs]

\* Calls that differ in their text fields, and calls that differ in their times.
TextCalls ==
    {LookupCall(e, f, t, c, NoTs, NoTs) :
        e \in {Null, Str(<<"A", "b">>)}, f \in {Absent, Str(<<"a">>)},
        t \in {Absent, List1(<<"b">>)}, c \in {Null, Obj(<<"B", "a">>)}}
TimeCalls ==
    {LookupCall(Str(<<"a">>), Absent, Absent, Null, s, c) :
        s \in {NoTs, Ts("number", 1), Ts("number", 2), Ts("iso", 2), Ts("other", 0), Ts("-inf", 0)},
        c \in {NoTs, Ts("numbertext", 1), Ts("number", 3)}}

\* Lists of up to MaxListed calls, call_id the position in the list
CallListsOf(pool) ==
    UNION {{[i \in 1..k |-> [l[i] EXCEPT !.call_id = i]] : l \in [1..k -> pool]} : k \in 0..MaxListed}

WithValues ==
    {[some |-> FALSE, s |-> <<>>]}
        \cup {[some |-> TRUE, s |-> n] : n \in {<<>>, <<"a">>, <<"B">>, <<"a", "b">>, <<"b", "b">>}}

SelectCall ==
    /\ cur.pc = "calls"
    /\ cur' = [pc |-> "selected", calls |-> cur.calls, with_value |-> cur.with_value,
               result |-> select_call(cur.calls, cur.with_value)]
    /\ UNCHANGED <<cfg, pvars, db, hookPosts>>

CallToolInputs ==
    {[pc |-> "calls", calls |-> l, with_value |-> w] : l \in CallListsOf(TextCalls), w \in WithValues}
    \cup {[pc |-> "calls", calls |-> l, with_value |-> w] :
            l \in CallListsOf(TimeCalls), w \in {[some |-> FALSE, s |-> <<>>], [some |-> TRUE, s |-> <<"a">>]}}
    \cup {[pc |-> "responses", responses |-> r, limit |-> l, missed |-> m] :
            r \in Responses, l \in 1..MaxLimit, m \in BOOLEAN}
    \cup {[pc |-> "call", call |-> [state |-> Absent, duration |-> d, total_duration |-> t]] :
            d \in Durations, t \in Durations}

InitCallTools ==
    /\ cfg \in PollerCfgs
    /\ PollerIdle
    /\ db = {}
    /\ hookPosts = [e \in EventIds |-> 0]
    /\ cur \in CallToolInputs

NextCallTools == SelectCall \/ ListCalls \/ NormalizeDuration

SpecCallTools == InitCallTools /\ [][NextCallTools]_vars

(***************************************************************************)
(* The paging loops: poll_voicemails.fetch_inbound_calls and               *)
(* call_lookup.list_calls, one page request per step.                      *)
(***************************************************************************)
max_pages == 20
list_calls_max_pages == 25

\* A response: a JSON list, a JSON value that is neither list nor object, or
\* an object with items (their date_ended, 0 when missing) and a cursor;
\* raised: the request or the reading of the page raised.
PageResponses ==
    {[shape |-> s, items |-> <<>>, cursor |-> FALSE] : s \in {"none", "list", "other", "raised"}}
        \cup {[shape |-> "dict", items |-> i, cursor |-> c] :
                i \in UNION {[1..k -> {0, 1, 5}] : k \in 0..MaxPageItems}, c \in BOOLEAN}

FetchNowMs == 6

Oldest(items) == CHOOSE m \in {items[k] : k \in 1..Len(items)} :
                    \A k \in 1..Len(items) : m <= items[k]

\* Whether the loop of fetch_inbound_calls goes on after this response
fetch_goes_on(response, windowed) ==
    /\ response.shape = "dict"
    /\ ~(windowed /\ response.items # <<>> /\ Oldest(response.items) < FetchNowMs - LOOKBACK)
    /\ response.cursor /\ response.items # <<>>

\* One iteration of fetch_inbound_calls, the page cap not applied: a faulty variant.
FetchPageNoCap ==
    /\ cur.pc = "fetching" /\ cur.fn = "fetch_inbound_calls"
    /\ cur.requests <= max_pages + 1
    /\ \E r \in PageResponses \ {[shape |-> "none", items |-> <<>>, cursor |-> FALSE]} :
          cur' = [cur EXCEPT !.requests = @ + 1, !.last = r,
                             !.pc = IF fetch_goes_on(r, cur.windowed) THEN "fetching" ELSE "fetched"]
    /\ UNCHANGED <<cfg, pvars, db, hookPosts>>

\* One iteration of `for _ in range(max_pages)` in fetch_inbound_calls
FetchPage ==
    /\ cur.pc = "fetching" /\ cur.fn = "fetch_inbound_calls"
    /\ \E r \in PageResponses \ {[shape |-> "none", items |-> <<>>, cursor |-> FALSE]} :
          cur' = [cur EXCEPT !.requests = @ + 1, !.last = r,
                             !.pc = IF fetch_goes_on(r, cur.windowed) /\ cur.requests + 1 < max_pages
                                    THEN "fetching" ELSE "fetched"]
    /\ UNCHANGED <<cfg, pvars, db, hookPosts>>

\* One iteration of `for _ in range(max_pages)` in call_lookup.list_calls;
\* api_get turns every failure into DialpadApiError.
ListPage ==
    /\ cur.pc = "fetching" /\ cur.fn = "list_calls"
    /\ \E r \in {r \in PageResponses : r.shape \in {"dict", "raised"}} :
          cur' = [cur EXCEPT !.requests = @ + 1, !.last = r,
                             !.pc = IF r.shape = "dict" /\ r.cursor /\ cur.requests + 1 < cur.max_pages
                                    THEN "fetching" ELSE "fetched"]
    /\ UNCHANGED <<cfg, pvars, db, hookPosts>>

InitFetch ==
    /\ cfg \in PollerCfgs
    /\ PollerIdle
    /\ db = {}
    /\ hookPosts = [e \in EventIds |-> 0]
    /\ cur \in {[pc |-> "fetching", fn |-> "fetch_inbound_calls", max_pages |-> max_pages,
                 windowed |-> w, requests |-> 0,
                 last |-> [shape |-> "none", items |-> <<>>, cursor |-> FALSE]] : w \in BOOLEAN}
               \cup {[pc |-> "fetching", fn |-> "list_calls", max_pages |-> m,
                      windowed |-> FALSE, requests |-> 0,
                      last |-> [shape |-> "none", items |-> <<>>, cursor |-> FALSE]] :
                        m \in {1, 2, list_calls_max_pages}}

NextFetch == FetchPage \/ ListPage

\* Every request is answered or raises, so the loop takes its next step.
SpecFetch == InitFetch /\ [][NextFetch]_vars /\ WF_vars(NextFetch)

(***************************************************************************)
(* The command-line wrappers (bin/_dialpad_compat.py and bin/*.py)         *)
(***************************************************************************)
\* A phone number text: blanks around it or not, a leading "+" or not, n
\* digits; d tells two digit strings of the same length apart.  NoTel is
\* Python's None, Tel(FALSE, FALSE, 0, 0) the empty string.
Tel(pad, plus, n, d) == [given |-> TRUE, pad |-> pad, plus |-> plus, n |-> n, d |-> d]
NoTel == [given |-> FALSE, pad |-> FALSE, plus |-> FALSE, n |-> 0, d |-> 0]
Txt(s) == [given |-> TRUE, text |-> s]
NoTxt == [given |-> FALSE, text |-> ""]

PROFILE_ENV_KEYS == [work |-> "DIALPAD_PROFILE_WORK_FROM", sales |-> "DIALPAD_PROFILE_SALES_FROM"]

\* E164_RE.match: a "+" and seven to fifteen digits, nothing else
E164_RE(number) == number.given /\ ~number.pad /\ number.plus /\ number.n >= 7 /\ number.n <= 15

\* str.strip on a number text; bool(str) on it
strip(number) == [number EXCEPT !.pad = FALSE]
NonEmpty(number) == number.given /\ (number.pad \/ number.plus \/ number.n > 0)

\* os.environ.get(key, "")
environ_get(env, key) == IF env[key].given THEN env[key] ELSE Tel(FALSE, FALSE, 0, 0)

Sender(number, source) == [raised |-> FALSE, number |-> number, source |-> source, message |-> ""]
WrapperError(message) == [raised |-> TRUE, number |-> NoTel, source |-> <<>>, message |-> message]

\* profile.strip().lower() on the profile texts of the model
StripLower(text) ==
    CASE text = " Work " -> "work"
      [] text = "SALES" -> "sales"
      [] OTHER -> text

\* _normalize_profile: value "" is None
normalize_profile(profile) ==
    IF ~profile.given \/ profile.text = ""
    THEN [raised |-> FALSE, value |-> ""]
    ELSE LET normalized == StripLower(profile.text)
         IN  IF normalized \in DOMAIN PROFILE_ENV_KEYS
             THEN [raised |-> FALSE, value |-> normalized]
             ELSE [raised |-> TRUE, value |-> ""]

\* _validate_e164
validate_e164(number, source) ==
    LET normalized == strip(number)
    IN  IF ~NonEmpty(normalized) \/ ~E164_RE(normalized)
        THEN WrapperError("Invalid sender number")
        ELSE Sender(normalized, source)

\* _profile_from_env
profile_from_env(profile, env, source) ==
    LET raw == environ_get(env, PROFILE_ENV_KEYS[profile])
    IN  IF ~NonEmpty(strip(raw))
        THEN WrapperError("Profile is not configured")
        ELSE validate_e164(raw, source)

\* A faulty variant: the default profile is consulted before the default number.
resolve_sender_default_profile_first(from_number, profile, allow_profile_mismatch, env) ==
    LET resolved_profile == normalize_profile(profile)
        default_from == environ_get(env, "DIALPAD_DEFAULT_FROM_NUMBER")
        default_profile == normalize_profile(env["DIALPAD_DEFAULT_PROFILE"])
    IN  IF resolved_profile.raised THEN WrapperError("Invalid profile")
        ELSE IF NonEmpty(from_number) /\ resolved_profile.value # ""
        THEN LET normalized_from == validate_e164(from_number, <<"--from with matching --profile", resolved_profile.value>>)
                 mapped == profile_from_env(resolved_profile.value, env, <<>>)
             IN  IF normalized_from.raised THEN normalized_from
                 ELSE IF mapped.raised THEN mapped
                 ELSE IF mapped.number # normalized_from.number /\ ~allow_profile_mismatch
                 THEN WrapperError("--from conflicts with --profile")
                 ELSE normalized_from
        ELSE IF NonEmpty(from_number) THEN validate_e164(from_number, <<"--from">>)
        ELSE IF resolved_profile.value # ""
        THEN profile_from_env(resolved_profile.value, env, <<"--profile", resolved_profile.value>>)
        ELSE IF default_profile.raised THEN WrapperError("Invalid profile")
        ELSE IF default_profile.value # ""
        THEN profile_from_env(default_profile.value, env, <<"DIALPAD_DEFAULT_PROFILE", default_profile.value>>)
        ELSE IF NonEmpty(strip(default_from))
        THEN validate_e164(default_from, <<"DIALPAD_DEFAULT_FROM_NUMBER">>)
        ELSE WrapperError("No sender resolved")

resolve_sender(from_number, profile, allow_profile_mismatch, env) ==
    LET resolved_profile == normalize_profile(profile)
        default_from == environ_get(env, "DIALPAD_DEFAULT_FROM_NUMBER")
        default_profile == normalize_profile(env["DIALPAD_DEFAULT_PROFILE"])
    IN  IF resolved_profile.raised THEN WrapperError("Invalid profile")
        ELSE IF NonEmpty(from_number) /\ resolved_profile.value # ""
        THEN LET normalized_from == validate_e164(from_number, <<"--from with matching --profile", resolved_profile.value>>)
                 mapped == profile_from_env(resolved_profile.value, env, <<>>)
             IN  IF normalized_from.raised THEN normalized_from
                 ELSE IF mapped.raised THEN mapped
                 ELSE IF mapped.number # normalized_from.number /\ ~allow_profile_mismatch
                 THEN WrapperError("--from conflicts with --profile")
                 ELSE normalized_from
        ELSE IF NonEmpty(from_number) THEN validate_e164(from_number, <<"--from">>)
        ELSE IF resolved_profile.value # ""
        THEN profile_from_env(resolved_profile.value, env, <<"--profile", resolved_profile.value>>)
        ELSE IF NonEmpty(strip(default_from))
        THEN validate_e164(default_from, <<"DIALPAD_DEFAULT_FROM_NUMBER">>)
        ELSE IF default_profile.raised THEN WrapperError("Invalid profile")
        ELSE IF default_profile.value # ""
        THEN profile_from_env(default_profile.value, env, <<"DIALPAD_DEFAULT_PROFILE", default_profile.value>>)
        ELSE WrapperError("No sender resolved")

\* Number texts: two valid numbers, one of them also padded, and invalid ones
TelA == Tel(FALSE, TRUE, 7, 1)
TelB == Tel(FALSE, TRUE, 15, 2)
FromNumberArgs ==
    {NoTel, Tel(FALSE, FALSE, 0, 0), Tel(TRUE, FALSE, 0, 0), TelA, Tel(TRUE, TRUE, 7, 1), TelB,
     Tel(FALSE, TRUE, 6, 1), Tel(FALSE, TRUE, 16, 1), Tel(FALSE, FALSE, 7, 1)}
ProfileArgs == {NoTxt, Txt(""), Txt("work"), Txt("sales"), Txt(" Work "), Txt("bogus")}
Environs ==
    {[DIALPAD_PROFILE_WORK_FROM |-> w, DIALPAD_PROFILE_SALES_FROM |-> s,
      DIALPAD_DEFAULT_FROM_NUMBER |-> f, DIALPAD_DEFAULT_PROFILE |-> p] :
        w \in {NoTel, TelA, TelB, Tel(FALSE, TRUE, 6, 1)},
        s \in {Tel(TRUE, FALSE, 0, 0), TelB},
        f \in {NoTel, Tel(TRUE, FALSE, 0, 0), TelA, Tel(TRUE, TRUE, 7, 1), TelB, Tel(FALSE, FALSE, 7, 1)},
        p \in {NoTxt, Txt("work"), Txt("SALES"), Txt("bogus")}}
SenderInputs ==
    {[pc |-> "sender", from_number |-> f, profile |-> p, allow_profile_mismatch |-> a, env |-> e] :
        f \in FromNumberArgs, p \in ProfileArgs, a \in BOOLEAN, e \in Environs}

ResolveSender ==
    /\ cur.pc = "sender"
    /\ cur' = [pc |-> "resolved", from_number |-> cur.from_number, profile |-> cur.profile,
               allow_profile_mismatch |-> cur.allow_profile_mismatch, env |-> cur.env,
               result |-> resolve_sender(cur.from_number, cur.profile,
                                         cur.allow_profile_mismatch, cur.env)]
    /\ UNCHANGED <<cfg, pvars, db, hookPosts>>

\* A WrapperError: the message as a sequence of pieces, the code ("" is None)
\* and the retryable flag (None only where the code is None, read as False)
Err(message, code, retryable) == [message |-> message, code |-> code, retryable |-> retryable]

ERROR_CODES ==
    {"missing_generated_cli", "auth_missing", "validation_failed", "invalid_argument", "not_found",
     "conflict", "upstream_error", "network_error", "timeout", "partial_success", "internal_error"}

\* message.lower() searched for a phrase: the phrases of classify_wrapper_error
\* that each message piece of the model contains
PhrasesIn(piece) ==
    CASE piece = "Generated CLI not found" -> {"generated cli not found", "not found"}
      [] piece = "DIALPAD_API_KEY environment variable not set" -> {"api key environment variable not set"}
      [] piece = ". This is a partial success state." -> {"partial success"}
      [] piece = "Refusing to send group intro without --confirm-share" -> {"refusing to send"}
      [] piece = "Invalid sender number" -> {"invalid "}
      [] piece = "Invalid profile" -> {"invalid "}
      [] piece = "Profile is not configured" -> {}
      [] piece = "--from conflicts with --profile" -> {"conflict"}
      [] piece = "No sender resolved" -> {}
      [] piece = "Ambiguous contact match" -> {"ambiguous"}
      [] piece = "404 Not Found" -> {"not found"}
      [] piece = "Contact not found" -> {"not found"}
      [] piece = "must be an integer" -> {"must be"}
      [] OTHER -> {}
Mentions(message, phrase) == \E i \in 1..Len(message) : phrase \in PhrasesIn(message[i])

classify_wrapper_error(message) ==
    IF Mentions(message, "generated cli not found") THEN <<"missing_generated_cli", FALSE>>
    ELSE IF Mentions(message, "api key environment variable not set") THEN <<"auth_missing", FALSE>>
    ELSE IF Mentions(message, "timed out") THEN <<"timeout", TRUE>>
    ELSE IF Mentions(message, "network error") THEN <<"network_error", TRUE>>
    ELSE IF Mentions(message, "partial success") THEN <<"partial_success", FALSE>>
    ELSE IF Mentions(message, "not found") THEN <<"not_found", FALSE>>
    ELSE IF Mentions(message, "conflict") \/ Mentions(message, "ambiguous") THEN <<"conflict", FALSE>>
    ELSE IF \E p \in {"invalid ", "missing ", "no update fields provided", "requires",
                      "refusing to send", "must be"} : Mentions(message, p)
    THEN <<"validation_failed", FALSE>>
    ELSE IF Mentions(message, "request failed") \/ Mentions(message, "dialpad api error")
    THEN <<"upstream_error", TRUE>>
    ELSE <<"internal_error", FALSE>>

\* What a run writes: a JSON document or a line of text
Json(doc) == [json |-> TRUE, doc |-> doc]
Line(text) == [json |-> FALSE, doc |-> text]

emit_success(command, wrapper, data) ==
    Json([ok |-> TRUE, command |-> command, data |-> data, meta |-> [wrapper |-> wrapper]])

emit_error(command, wrapper, code, message, retryable) ==
    Json([ok |-> FALSE, command |-> command,
          error |-> [code |-> IF code \in ERROR_CODES THEN code ELSE "internal_error",
                     message |-> message, retryable |-> retryable],
          meta |-> [wrapper |-> wrapper]])

\* The outcome of a wrapper run: exit code, what went to stdout and stderr, the
\* generated-CLI commands issued in order, whether the API key was looked for
Outcome(exit, stdout, stderr, calls, key_checked) ==
    [exit |-> exit, stdout |-> stdout, stderr |-> stderr, calls |-> calls, key_checked |-> key_checked]

\* handle_wrapper_exception and print_wrapper_error, as the outcome they end a run with
handle_wrapper_exception(command, wrapper, err, json_mode, calls, key_checked) ==
    IF json_mode
    THEN LET classified == classify_wrapper_error(err.message)
             code == IF err.code # "" THEN err.code ELSE classified[1]
             retryable == IF err.code # "" THEN err.retryable ELSE classified[2]
         IN  Outcome(2, <<emit_error(command, wrapper, code, err.message, retryable)>>, <<>>,
                     calls, key_checked)
    ELSE Outcome(2, <<>>, <<Line(err.message)>>, calls, key_checked)

\* run_generated_json: the outcome of the n-th command comes from the upstream
Upstream(ok, id) == [ok |-> ok, id |-> id]
run_generated_json_error == Err(<<"generated command failed">>, "upstream_error", TRUE)

\* A faulty variant: the error never names the first message.
first_message_id_unknown(prospect_result) == "N/A"

\* prospect_result.get("id") or "N/A"
first_message_id(prospect_result) ==
    IF prospect_result.id # "" THEN prospect_result.id ELSE "N/A"

send_group_intro(args, env, upstream) ==
    LET command == "send_group_intro.send"
        wrapper == "send_group_intro.py"
        sender == resolve_sender(args.from_number, args.profile, args.allow_profile_mismatch, env)
        Sms(to) == [cmd |-> "sms send", to |-> to, from_number |-> sender.number]
        prospect_result == upstream[1]
        reference_result == upstream[2]
    IN  IF ~env.generated_cli
        THEN \* json_mode is still False when require_generated_cli raises
             handle_wrapper_exception(command, wrapper,
                 Err(<<"Generated CLI not found">>, "missing_generated_cli", FALSE), FALSE, <<>>, FALSE)
        ELSE IF ~args.confirm_share
        THEN handle_wrapper_exception(command, wrapper,
                 Err(<<"Refusing to send group intro without --confirm-share">>, "", FALSE),
                 args.json, <<>>, FALSE)
        ELSE IF sender.raised
        THEN handle_wrapper_exception(command, wrapper, Err(<<sender.message>>, "", FALSE),
                 args.json, <<>>, FALSE)
        ELSE IF args.dry_run
        THEN Outcome(0,
                 IF args.json
                 THEN <<emit_success(command, wrapper,
                            [mode |-> "mirrored_fallback", sender_number |-> sender.number,
                             prospect |-> [to |-> args.prospect, status |-> "pending"],
                             reference |-> [to |-> args.reference, status |-> "pending"],
                             dry_run |-> TRUE])>>
                 ELSE <<Line(<<"Dry run: no messages sent">>)>>,
                 <<>>, <<>>, FALSE)
        ELSE IF ~env.api_key
        THEN handle_wrapper_exception(command, wrapper,
                 Err(<<"DIALPAD_API_KEY environment variable not set">>, "auth_missing", FALSE),
                 args.json, <<>>, TRUE)
        ELSE IF ~prospect_result.ok
        THEN handle_wrapper_exception(command, wrapper, run_generated_json_error,
                 args.json, <<Sms(args.prospect)>>, TRUE)
        ELSE IF ~reference_result.ok
        THEN handle_wrapper_exception(command, wrapper,
                 Err(<<"Prospect message sent successfully (first_message_id=",
                       first_message_id(prospect_result), "). Reference message failed: ">>
                       \o run_generated_json_error.message
                       \o <<". This is a partial success state.">>,
                     "partial_success", FALSE),
                 args.json, <<Sms(args.prospect), Sms(args.reference)>>, TRUE)
        ELSE Outcome(0,
                 IF args.json
                 THEN <<emit_success(command, wrapper,
                            [mode |-> "mirrored_fallback", sender_number |-> sender.number,
                             prospect |-> [to |-> args.prospect, id |-> prospect_result.id],
                             reference |-> [to |-> args.reference, id |-> reference_result.id]])>>
                 ELSE <<Line(<<"Mode: mirrored_fallback">>)>>,
                 <<>>, <<Sms(args.prospect), Sms(args.reference)>>, TRUE)

\* Environments of a wrapper run: the sender variables, whether generated/dialpad
\* exists, whether DIALPAD_API_KEY or DIALPAD_TOKEN is set
RunEnvirons ==
    {[DIALPAD_PROFILE_WORK_FROM |-> w, DIALPAD_PROFILE_SALES_FROM |-> NoTel,
      DIALPAD_DEFAULT_FROM_NUMBER |-> f, DIALPAD_DEFAULT_PROFILE |-> NoTxt,
      generated_cli |-> g, api_key |-> k] :
        w \in {NoTel, TelB}, f \in {NoTel, TelB}, g \in BOOLEAN, k \in BOOLEAN}
SendResults == {Upstream(TRUE, "m1"), Upstream(TRUE, ""), Upstream(FALSE, "")}
IntroInputs ==
    {[pc |-> "intro",
      args |-> [prospect |-> "+14155550111", reference |-> "+14155559999", from_number |-> f,
                profile |-> p, allow_profile_mismatch |-> FALSE, confirm_share |-> c,
                dry_run |-> d, json |-> j],
      env |-> e, upstream |-> <<u1, u2>>] :
        f \in {NoTel, TelA, Tel(FALSE, FALSE, 7, 1)}, p \in {NoTxt, Txt("work")},
        c \in BOOLEAN, d \in BOOLEAN, j \in BOOLEAN, e \in RunEnvirons,
        u1 \in SendResults, u2 \in SendResults}

SendGroupIntro ==
    /\ cur.pc = "intro"
    /\ cur' = [pc |-> "intro_done", args |-> cur.args, env |-> cur.env, upstream |-> cur.upstream,
               result |-> send_group_intro(cur.args, cur.env, cur.upstream)]
    /\ UNCHANGED <<cfg, pvars, db, hookPosts>>

\* The names bin/_dialpad_compat.py defines, and the names send_sms.py imports from it
compat_names ==
    {"COMMAND_IDS", "ERROR_CODES", "WrapperError", "WrapperArgumentParser", "resolve_sender",
     "generated_cli_available", "require_generated_cli", "require_api_key", "run_generated",
     "run_generated_json", "print_wrapper_error", "build_meta", "emit_success", "emit_error",
     "classify_wrapper_error", "handle_wrapper_exception"}
send_sms_imports ==
    {"generated_cli_available", "print_wrapper_error", "require_api_key", "resolve_sender",
     "run_generated_json", "run_legacy", "WrapperError"}

\* The interpreter ends a script whose import fails with a traceback and exit code 1
ImportError == Outcome(1, <<>>, <<Line(<<"ImportError: cannot import name">>)>>, <<>>, FALSE)

send_sms(args, env, upstream) ==
    LET sender == resolve_sender(args.from_number, args.profile, args.allow_profile_mismatch, env)
        Sms == [cmd |-> "sms send", to |-> args.to, from_number |-> sender.number]
        Failed(message, calls, key_checked) ==
            Outcome(2, <<>>, <<Line(message)>>, calls, key_checked)
    IN  IF ~(send_sms_imports \subseteq compat_names)
        THEN ImportError
        ELSE IF ~env.generated_cli
        THEN IF args.profile.given \/ args.allow_profile_mismatch \/ args.dry_run
             THEN Failed(<<"This command requires generated/dialpad">>, <<>>, FALSE)
             ELSE ImportError      \* run_legacy, the name that cannot be imported
        ELSE IF sender.raised THEN Failed(<<sender.message>>, <<>>, FALSE)
        ELSE IF args.dry_run
        THEN Outcome(0,
                 IF args.json
                 THEN <<Json([mode |-> "dry_run", command |-> "sms send",
                              sender_number |-> sender.number, sender_source |-> sender.source,
                              payload |-> [to_numbers |-> args.to, from_number |-> sender.number]])>>
                 ELSE <<Line(<<"Dry run: SMS not sent">>)>>,
                 <<>>, <<>>, FALSE)
        ELSE IF ~env.api_key
        THEN Failed(<<"DIALPAD_API_KEY environment variable not set">>, <<>>, TRUE)
        ELSE IF ~upstream[1].ok
        THEN Failed(run_generated_json_error.message, <<Sms>>, TRUE)
        ELSE Outcome(0,
                 IF args.json THEN <<Json([id |-> upstream[1].id])>>
                 ELSE <<Line(<<"SMS sent successfully!">>)>>,
                 <<>>, <<Sms>>, TRUE)

\* make_call.py with the default, empty KNOWN_USERS
make_call(args, env, upstream) ==
    LET Failed(message, calls, key_checked) ==
            Outcome(2, <<>>, <<Line(message)>>, calls, key_checked)
        Dial == [cmd |-> "call call.call", to |-> args.to, from_number |-> args.from_number]
    IN  IF ~env.generated_cli THEN Failed(<<"Generated CLI not found">>, <<>>, FALSE)
        ELSE IF ~env.api_key
        THEN Failed(<<"DIALPAD_API_KEY environment variable not set">>, <<>>, TRUE)
        ELSE IF args.user_id = ""
        THEN Failed(IF NonEmpty(args.from_number) THEN <<"Unknown --from number">>
                    ELSE <<"user_id is required">>, <<>>, TRUE)
        ELSE IF ~upstream[1].ok
        THEN Failed(run_generated_json_error.message, <<Dial>>, TRUE)
        ELSE Outcome(0,
                 IF args.json THEN <<Json([call_id |-> upstream[1].id])>>
                 ELSE <<Line(<<"Call initiated successfully!">>)>>,
                 <<>>, <<Dial>>, TRUE)

SmsInputs ==
    {[pc |-> "sms",
      args |-> [to |-> "+14155550111", from_number |-> f, profile |-> p,
                allow_profile_mismatch |-> FALSE, dry_run |-> d, json |-> j],
      env |-> e, upstream |-> <<u>>] :
        f \in {NoTel, TelA, Tel(FALSE, FALSE, 7, 1)}, p \in {NoTxt, Txt("work")},
        d \in BOOLEAN, j \in BOOLEAN, e \in RunEnvirons, u \in SendResults}
CallInputs ==
    {[pc |-> "call",
      args |-> [to |-> "+14155550111", from_number |-> f, user_id |-> u, json |-> j],
      env |-> e, upstream |-> <<r>>] :
        f \in {NoTel, TelA}, u \in {"", "u1"}, j \in BOOLEAN, e \in RunEnvirons, r \in SendResults}

SendSms ==
    /\ cur.pc = "sms"
    /\ cur' = [pc |-> "sms_done", args |-> cur.args, env |-> cur.env, upstream |-> cur.upstream,
               result |-> send_sms(cur.args, cur.env, cur.upstream)]
    /\ UNCHANGED <<cfg, pvars, db, hookPosts>>

MakeCall ==
    /\ cur.pc = "call"
    /\ cur' = [pc |-> "call_done", args |-> cur.args, env |-> cur.env, upstream |-> cur.upstream,
               result |-> make_call(cur.args, cur.env, cur.upstream)]
    /\ UNCHANGED <<cfg, pvars, db, hookPosts>>

MaxContactPages == 2

\* An existing contact: its id and its phone and e-mail values in the normal
\* form is_duplicate_contact compares (digits only, stripped lower case)
Contact(id, phones, emails) == [id |-> id, phones |-> phones, emails |-> emails]

\* A faulty variant: e-mail addresses are not compared.
is_duplicate_contact_phones_only(contact, phones, emails) == contact.phones \cap phones # {}

is_duplicate_contact(contact, phones, emails) ==
    \/ contact.phones \cap phones # {}
    \/ contact.emails \cap emails # {}

ContactCmd(cmd, id, owner_id) == [cmd |-> cmd, id |-> id, owner_id |-> owner_id]

\* find_matching_contact from its n-th request on: listing[n + 1] is the page
\* the next contacts.list returns, the last page of a listing has no cursor
RECURSIVE scan_contacts(_, _, _, _, _, _)
scan_contacts(phones, emails, scan_limit, listing, n, matches) ==
    IF n = scan_limit
    THEN [raised |-> FALSE, matches |-> matches, requests |-> n]
    ELSE LET Duplicate(contact) == is_duplicate_contact(contact, phones, emails)
             found == matches \o SelectSeq(listing[n + 1], Duplicate)
         IN  IF Len(found) > 1
             THEN [raised |-> TRUE, matches |-> found, requests |-> n + 1]
             ELSE IF n + 1 = Len(listing)
             THEN [raised |-> FALSE, matches |-> found, requests |-> n + 1]
             ELSE scan_contacts(phones, emails, scan_limit, listing, n + 1, found)

find_matching_contact(phones, emails, scan_limit, listing) ==
    IF phones = {} /\ emails = {}
    THEN [raised |-> FALSE, matches |-> <<>>, requests |-> 0]
    ELSE scan_contacts(phones, emails, scan_limit, listing, 0, <<>>)

\* sync_shared_contact (owner_id "") and sync_local_contact: the commands
\* issued for one scope and whether the scope ended with the ambiguity error
sync_contact(owner_id, phones, emails, allow_duplicate, scan_limit, listing) ==
    LET found == find_matching_contact(phones, emails, scan_limit, listing)
        lists == [i \in 1..found.requests |-> ContactCmd("contacts.list", "", owner_id)]
    IN  IF allow_duplicate
        THEN [raised |-> FALSE, calls |-> <<ContactCmd("contacts.create", "", owner_id)>>]
        ELSE IF found.raised THEN [raised |-> TRUE, calls |-> lists]
        ELSE IF found.matches = <<>>
        THEN [raised |-> FALSE, calls |-> Append(lists, ContactCmd("contacts.create", "", owner_id))]
        ELSE [raised |-> FALSE,
              calls |-> Append(lists, ContactCmd("contacts.update", found.matches[1].id, owner_id))]

\* create_contact.py main; args.owner_id is "" or one owner id
create_contact(args, env, listings) ==
    LET command == "create_contact.upsert"
        wrapper == "create_contact.py"
        scope == IF args.scope = "auto" THEN (IF args.owner_id # "" THEN "both" ELSE "shared")
                 ELSE args.scope
        Nothing == [raised |-> FALSE, calls |-> <<>>]
        shared == IF scope \in {"shared", "both"}
                  THEN sync_contact("", args.phones, args.emails, args.allow_duplicate,
                                    args.max_pages, listings.shared)
                  ELSE Nothing
        local == IF scope \in {"local", "both"} /\ ~shared.raised
                 THEN sync_contact(args.owner_id, args.phones, args.emails, args.allow_duplicate,
                                   args.max_pages, listings.local)
                 ELSE Nothing
        calls == shared.calls \o local.calls
        Ambiguous == Err(<<"Ambiguous contact match">>, "", FALSE)
    IN  IF ~env.generated_cli
        THEN handle_wrapper_exception(command, wrapper,
                 Err(<<"Generated CLI not found">>, "missing_generated_cli", FALSE),
                 args.json, <<>>, FALSE)
        ELSE IF ~env.api_key
        THEN handle_wrapper_exception(command, wrapper,
                 Err(<<"DIALPAD_API_KEY environment variable not set">>, "auth_missing", FALSE),
                 args.json, <<>>, TRUE)
        ELSE IF args.max_pages <= 0
        THEN handle_wrapper_exception(command, wrapper, Err(<<"Invalid --max-pages value">>, "", FALSE),
                 args.json, <<>>, TRUE)
        ELSE IF scope \in {"local", "both"} /\ args.owner_id = ""
        THEN handle_wrapper_exception(command, wrapper, Err(<<"--owner-id is required">>, "", FALSE),
                 args.json, <<>>, TRUE)
        ELSE IF shared.raised \/ local.raised
        THEN handle_wrapper_exception(command, wrapper, Ambiguous, args.json, calls, TRUE)
        ELSE Outcome(0,
                 IF args.json
                 THEN <<emit_success(command, wrapper, [scope |-> scope, calls |-> calls])>>
                 ELSE <<Line(<<"contact synced">>)>>,
                 <<>>, calls, TRUE)

\* Two contacts that match the phone p or the e-mail e, one that matches neither
ContactPages ==
    LET c1 == Contact("c1", {"p"}, {})
        c2 == Contact("c2", {"q"}, {"e"})
        c3 == Contact("c3", {"q"}, {})
    IN  {<<>>, <<c1>>, <<c2>>, <<c3>>, <<c1, c2>>}
ContactListings == UNION {[1..k -> ContactPages] : k \in 1..MaxContactPages}
ContactInputs ==
    {[pc |-> "contact",
      args |-> [phones |-> p, emails |-> m, scope |-> s, owner_id |-> o, allow_duplicate |-> a,
                max_pages |-> x, json |-> j],
      env |-> [generated_cli |-> TRUE, api_key |-> TRUE],
      listings |-> [shared |-> l,
                    local |-> <<IF o = "" THEN <<>> ELSE l[1]>>]] :
        p \in {{}, {"p"}}, m \in {{}, {"e"}}, s \in {"auto", "local"}, o \in {"", "o1"},
        a \in BOOLEAN, x \in 0..MaxContactPages, j \in BOOLEAN, l \in ContactListings}

CreateContact ==
    /\ cur.pc = "contact"
    /\ cur' = [pc |-> "contact_done", args |-> cur.args, env |-> cur.env, listings |-> cur.listings,
               result |-> create_contact(cur.args, cur.env, cur.listings)]
    /\ UNCHANGED <<cfg, pvars, db, hookPosts>>

\* A value int() is applied to: absent (None or empty), an integer, a text
\* of digits, or another text
IntArg(type, integer) == [type |-> type, integer |-> integer]
IntArgs == {IntArg("none", FALSE), IntArg("int", TRUE), IntArg("str", TRUE), IntArg("str", FALSE)}

\* handle_create of create_sms_webhook.py: the commands issued and the error raised
handle_create(args, upstream) ==
    LET Cmd(name) == [cmd |-> name]
        create == <<Cmd("webhook create")>>
        delete == <<Cmd("webhooks.delete")>>
        subscribe == <<Cmd("webhook_sms_event_subscription.create")>>
        Raised(message, calls) == [raised |-> TRUE, error |-> message, calls |-> calls]
        webhook_id == upstream.webhook.id
    IN  IF args.events = "unsupported"
        THEN Raised(Err(<<"Unsupported events for SMS subscription">>, "", FALSE), <<>>)
        ELSE IF ~upstream.webhook.ok THEN Raised(run_generated_json_error, create)
        ELSE IF webhook_id.type = "none"
        THEN Raised(Err(<<"Webhook create did not return id">>, "", FALSE), create)
        ELSE IF ~webhook_id.integer
        THEN Raised(Err(<<"Invalid webhook_id returned">>, "", FALSE), create)
        ELSE IF args.office_id.type # "none" /\ ~args.office_id.integer
        THEN Raised(Err(<<"Invalid --office-id">>, "", FALSE), create \o delete)
        ELSE IF ~upstream.subscription_ok
        THEN Raised(run_generated_json_error, create \o subscribe \o delete)
        ELSE [raised |-> FALSE, error |-> Err(<<>>, "", FALSE), calls |-> create \o subscribe]

\* main of create_sms_webhook.py for the create command
create_sms_webhook(args, env, upstream) ==
    LET command == "create_sms_webhook.create"
        wrapper == "create_sms_webhook.py"
        created == handle_create(args, upstream)
    IN  IF ~env.generated_cli
        THEN handle_wrapper_exception(command, wrapper,
                 Err(<<"Generated CLI not found">>, "missing_generated_cli", FALSE),
                 args.json, <<>>, FALSE)
        ELSE IF ~env.api_key
        THEN handle_wrapper_exception(command, wrapper,
                 Err(<<"DIALPAD_API_KEY environment variable not set">>, "auth_missing", FALSE),
                 args.json, <<>>, TRUE)
        ELSE IF created.raised
        THEN handle_wrapper_exception(command, wrapper, created.error, args.json, created.calls, TRUE)
        ELSE Outcome(0,
                 IF args.json
                 THEN <<emit_success(command, wrapper, [webhook |-> upstream.webhook.id])>>
                 ELSE <<Line(<<"Webhook subscription created!">>)>>,
                 <<>>, created.calls, TRUE)

WebhookInputs ==
    {[pc |-> "hook",
      args |-> [events |-> v, office_id |-> o, json |-> j],
      env |-> [generated_cli |-> g, api_key |-> k],
      upstream |-> [webhook |-> [ok |-> w, id |-> i], subscription_ok |-> s, delete_ok |-> d]] :
        v \in {"", "sms_sent", "unsupported"}, o \in {a \in IntArgs : a.type # "int"},
        j \in BOOLEAN, g \in BOOLEAN, k \in BOOLEAN, w \in BOOLEAN, i \in IntArgs,
        s \in BOOLEAN, d \in BOOLEAN}

CreateWebhook ==
    /\ cur.pc = "hook"
    /\ cur' = [pc |-> "hook_done", args |-> cur.args, env |-> cur.env, upstream |-> cur.upstream,
               result |-> create_sms_webhook(cur.args, cur.env, cur.upstream)]
    /\ UNCHANGED <<cfg, pvars, db, hookPosts>>

WrapperInputs == SenderInputs \cup IntroInputs \cup SmsInputs \cup CallInputs
        \cup ContactInputs \cup WebhookInputs

InitWrappers ==
    /\ cfg \in PollerCfgs
    /\ PollerIdle
    /\ db = {}
    /\ hookPosts = [e \in EventIds |-> 0]
    /\ cur \in WrapperInputs

NextWrappers == ResolveSender \/ SendGroupIntro \/ SendSms \/ MakeCall \/ CreateContact
                \/ CreateWebhook

SpecWrappers == InitWrappers /\ [][NextWrappers]_vars

(***************************************************************************)
(* Properties of the poller and the ledger                                 *)
(***************************************************************************)
RunIds == {call_id_of(run.voicemails[k]) : k \in 1..Len(run.voicemails)}

\* A step that executes send_to_telegram / a step that executes mark_seen.
SendStep == ppc = "send" /\ ppc' # "send"
MarkStep == LedgerIds' # LedgerIds \/ (ppc = "mark" /\ ppc' # "mark")

C6_Step ==
    /\ SendStep => /\ run.checked = call_id_of(CurCall)
                   /\ ~has_seen(ledger, call_id_of(CurCall))
    /\ MarkStep => /\ ppc = "mark"
                   /\ run.sent_ok = call_id_of(CurCall)
                   /\ LedgerIds' \subseteq LedgerIds \cup {run.sent_ok}

\* C6: in a poller run every send is preceded by a has_seen check of the same
\* call_id that answered "not seen", a call_id that is in the ledger is never
\* sent, and mark_seen is executed only for the call_id whose send just
\* returned True.
C6_CheckSendMarkOrder == [][C6_Step]_vars

\* C6 witness: a mark has followed a successful send, and the run went on.
C6_Witness ==
    /\ ppc = "loop" /\ run.notified = 1 /\ run.i = 2
    /\ run.sent_ok = "c1" /\ run.checked = "c1" /\ has_seen(ledger, "c1")

FetchedVoicemailIds ==
    {call_id_of(run.calls[k]) : k \in {j \in 1..Len(run.calls) : has_voicemail(run.calls[j])}}

RowsOf(id) == {r \in ledger : r.call_id = id}

\* C9: mark_seen never raises; before the first call has_seen is false; after
\* one or more calls has_seen is true and the table holds exactly one row for
\* the id, carrying the notified_at of the first call.
C9_MarkSeenIdempotent ==
    \A id \in CallIds :
        /\ \A k \in 1..Len(marks[id]) : ~marks[id][k].raised
        /\ marks[id] = <<>> => ~has_seen(ledger, id)
        /\ marks[id] # <<>> =>
              /\ has_seen(ledger, id)
              /\ RowsOf(id) = {[call_id |-> id, notified_at |-> marks[id][1].at]}

\* C9 witness: mark_seen has been called twice for c1, at different times.
C9_Witness ==
    /\ Len(marks["c1"]) = 2
    /\ marks["c1"][1].at < marks["c1"][2].at
    /\ marks["c2"] = <<>>

(***************************************************************************)
(* Properties of the webhook handler                                       *)
(***************************************************************************)
Responded == cur.pc = "responded"

Calls(trace, ops) == {k \in 1..Len(trace) : trace[k].op \in ops}

\* The direction of a payload, compared without regard to case, is not "inbound".
NotInbound(data) ==
    data.direction = Absent \/ LowerSeq(PyStr(data.direction)) # <<"inbound">>

\* C1: with a webhook secret configured, a request that verify_webhook_auth
\* answers not-ok gets 401, and the handler calls neither the store, nor the
\* contact lookup, nor the hook for it.
C1_UnauthenticatedRejected ==
    (/\ Responded
     /\ cfg.secret # ""
     /\ ~verify_webhook_auth(cur.req.headers, cur.req.raw_body, cfg.secret).raised
     /\ ~verify_webhook_auth(cur.req.headers, cur.req.raw_body, cfg.secret).ok)
    => /\ cur.status = 401
       /\ cur.trace = <<>>
       /\ cur.body = NoBody

\* C1 witness: a request signed with the wrong key was answered 401.
C1_Witness ==
    /\ Responded /\ cfg.secret = "s3cret"
    /\ cur.req.headers = Headers(<<Piece(TRUE, "wrong", "body")>>, <<>>, NoAuthz)
    /\ cur.status = 401 /\ cur.trace = <<>>

\* C2: a hook notification is attempted only after the store call of the same
\* request returned stored=true; when the store call returns stored=false or
\* raises, the answer is 500 and no notification is attempted.
C2_HookOnlyAfterStored ==
    Responded =>
        /\ \A k \in Calls(cur.trace, {"hook", "post"}) :
              \E j \in 1..(k - 1) : cur.trace[j] = E("store", "stored")
        /\ (Has(cur.trace, "store", "not_stored") \/ Has(cur.trace, "store", "raised"))
              => cur.status = 500 /\ Calls(cur.trace, {"hook", "post"}) = {}

\* C2 witness: an earlier request was stored and its notification accepted, and
\* the request at hand, whose store call returned stored=false, was answered 500.
C2_Witness ==
    /\ Responded /\ hookPosts["m2"] = 1 /\ "m2" \in db
    /\ cur.trace = <<E("store", "not_stored")>> /\ cur.status = 500
    /\ cur.req.body.data = CanonicalPayload("m1") /\ cfg.hooksToken # ""

\* C3 as stated: once the store call returned stored=true the answer is 200
\* with stored=true, whatever the payload and whatever lookup and hook do.
C3_StoredImplies200 ==
    (Responded /\ Has(cur.trace, "store", "stored"))
    => cur.status = 200 /\ cur.body.stored = "true"

\* C4 as stated: deliveries carrying the same event id lead to at most one
\* hook notification for it.
C4_AtMostOneHookPerEvent == \A e \in EventIds : hookPosts[e] <= 1

\* C5 as stated, the store call taken to succeed: an inbound payload whose
\* text is non-blank and sensitive is answered 200 with stored=true and
\* hook_status filtered_sensitive, and no hook send is attempted.
C5_SensitiveStoredNotForwarded ==
    (/\ Responded
     /\ cur.req.body.kind = "dict"
     /\ ~NotInbound(cur.req.body.data)
     /\ ~StripsEmpty(extract_message_text(cur.req.body.data))
     /\ is_sensitive_message(extract_message_text(cur.req.body.data), <<>>, <<>>)
     /\ Has(cur.trace, "store", "stored"))
    => /\ cur.status = 200
       /\ cur.body = OkBody("false", "filtered_sensitive")
       /\ Calls(cur.trace, {"hook", "post"}) = {}

\* C10: a payload whose direction is not "inbound" (in any case; a missing
\* direction included) is classified not_inbound; the handler attempts no
\* contact lookup and no hook notification for it, and its answer after a
\* successful store is 200 with hook_forwarded and hook_status null.
C10_NotInboundNotForwarded ==
    (Responded /\ NotInbound(cur.req.body.data)) =>
          /\ classify_inbound_notification(cur.req.body.data) = "not_inbound"
          /\ Calls(cur.trace, {"lookup", "hook", "post"}) = {}
          /\ Has(cur.trace, "store", "stored") =>
                cur.status = 200 /\ cur.body = OkBody("null", "null")

\* C10 witness: a stored payload without a direction was answered with nulls.
C10_Witness ==
    /\ Responded /\ cur.req.body.kind = "dict"
    /\ cur.req.body.data.direction = Absent
    /\ cur.req.body.data.text = Str(<<"hello">>)
    /\ cfg.apiKey # "" /\ cfg.hooksToken # ""
    /\ cur.trace = <<E("store", "stored")>>
    /\ cur.status = 200 /\ cur.body = OkBody("null", "null")

(***************************************************************************)
(* Properties of the classification                                        *)
(***************************************************************************)
Classified == cur.pc = "classified"

\* The five conditions of a missed call, read off the payload.
IsInbound(p) == p.direction.t = "str" /\ LowerSeq(p.direction.s) = <<"inbound">>
TextIsBlank(p) == StripsEmpty(extract_message_text(p))
EventWord(p) == IF p.event_type.t = "str" /\ p.event_type.s # <<>> THEN p.event_type.s[1] ELSE ""
HasMissedSignal(p) ==
    \/ p.call_missed = True
    \/ p.missed_call = True
    \/ (p.call_state.t = "str" /\ LowerSeq(p.call_state.s)
            \in {<<"missed">>, <<"no_answer">>, <<"unanswered">>})
    \/ EventWord(p) \in {"call.missed", "missed_call", "call.no_answer"}
HasCallContext(p) ==
    \/ p.call_id # Absent \/ p.call_missed # Absent \/ p.call_state # Absent
    \/ EventWord(p) \in {"call.missed", "missed_call", "call.no_answer", "call.ended"}
HasSender(p) ==
    \/ (p.from_number.t = "str" /\ ~StripsEmpty(p.from_number.s))
    \/ (p.from_number.t = "list" /\ ~StripsEmpty(p.from_number.s))
    \/ p.from_number.t = "num"

\* The payload with one of the five conditions taken away.
Without(p) ==
    { [p EXCEPT !.direction = Str(<<"outbound">>)],
      [p EXCEPT !.direction = Absent],
      [p EXCEPT !.text = Str(<<"hello">>)],
      [p EXCEPT !.call_missed = IF @ = True THEN False ELSE @, !.missed_call = Absent,
                !.call_state = IF @ = Absent THEN @ ELSE Str(<<"ringing">>),
                !.event_type = IF @ = Absent THEN @ ELSE Str(<<"call.ended">>)],
      [p EXCEPT !.call_id = Absent, !.call_missed = Absent, !.call_state = Absent,
                !.event_type = IF @ = Absent THEN @ ELSE Str(<<"sms.received">>)],
      [p EXCEPT !.from_number = Absent],
      [p EXCEPT !.from_number = Str(<<" ">>)] }

\* C11: classify_inbound_notification answers missed_call only for a payload
\* that is inbound, has blank text, carries a missed-call signal, carries call
\* context and has a non-empty from_number; the same payload with any one of
\* the five taken away gets a different tag.
C11_MissedCallNeedsAllFive ==
    (Classified /\ cur.tag = "missed_call") =>
        /\ IsInbound(cur.data) /\ TextIsBlank(cur.data) /\ HasMissedSignal(cur.data)
        /\ HasCallContext(cur.data) /\ HasSender(cur.data)
        /\ \A q \in Without(cur.data) : classify_inbound_notification(q) # "missed_call"

\* C11 witness: missed_call is the only signal and call_id the only context.
C11_Witness ==
    /\ Classified /\ cur.tag = "missed_call"
    /\ cur.data.missed_call = True /\ cur.data.call_missed = Absent
    /\ cur.data.call_state = Absent /\ cur.data.event_type = Absent
    /\ cur.data.call_id # Absent /\ cur.data.from_number = List1(Phone)

\* C12: an inbound payload whose resolved text is blank and which lacks the
\* missed-call signal, the call context or the sender is classified blank_sms.
C12_BlankFallsBackToBlankSms ==
    (/\ Classified
     /\ IsInbound(cur.data)
     /\ TextIsBlank(cur.data)
     /\ ~(HasMissedSignal(cur.data) /\ HasCallContext(cur.data) /\ HasSender(cur.data)))
    => cur.tag = "blank_sms"

\* C12 witness: a missed-call signal without call context falls back to blank_sms.
C12_Witness ==
    /\ Classified /\ cur.tag = "blank_sms"
    /\ cur.data.direction = Str(<<"Inbound">>)
    /\ cur.data.text = Str(<<" ">>)
    /\ cur.data.missed_call = True /\ ~HasCallContext(cur.data)
    /\ cur.data.from_number = Str(Phone)

(***************************************************************************)
(* Properties of the webhook handler: routing by classification            *)
(***************************************************************************)
\* C13 as stated: an event the main webhook classifies as missed_call gets a
\* call alert sent to Telegram, and nothing is sent to the agent hook.
C13_MissedCallAlertedOnTelegram ==
    (/\ Responded
     /\ cur.req.body.kind = "dict"
     /\ classify_inbound_notification(cur.req.body.data) = "missed_call"
     /\ cur.status = 200)
    => /\ Calls(cur.trace, {"telegram"}) # {}
       /\ Calls(cur.trace, {"hook", "post"}) = {}

\* C14 as stated, the store call taken to succeed: an event classified
\* blank_sms is answered 200 with stored=true, hook_forwarded false and
\* hook_status filtered_blank_sms, and no hook send is attempted.
C14_BlankSmsStoredNotForwarded ==
    (/\ Responded
     /\ cur.req.body.kind = "dict"
     /\ classify_inbound_notification(cur.req.body.data) = "blank_sms"
     /\ Has(cur.trace, "store", "stored"))
    => /\ cur.status = 200
       /\ cur.body = OkBody("false", "filtered_blank_sms")
       /\ Calls(cur.trace, {"hook", "post"}) = {}

(***************************************************************************)
(* Properties of the authentication                                        *)
(***************************************************************************)
Authenticated == cur.pc = "authenticated"

\* C15 as stated: with an empty secret verify_webhook_auth answers
\* (true, "disabled"); with a secret it answers ok exactly when the HMAC check or
\* the JWT check succeeds, "hmac" whenever the HMAC check succeeds, "jwt" only
\* when HMAC fails and JWT succeeds, and not-ok when neither succeeds.
C15_AuthIsHmacOrJwt ==
    Authenticated =>
        /\ ~cur.auth.raised
        /\ cfg.secret = "" => cur.auth.ok /\ cur.auth.source = "disabled"
        /\ cfg.secret # "" =>
              /\ cur.auth.ok <=> (cur.hmac \/ cur.jwt = "true")
              /\ cur.hmac => cur.auth.source = "hmac"
              /\ cur.auth.source = "jwt" <=> (~cur.hmac /\ cur.jwt = "true")

\* A piece that spells, in a recognised form and in either letter case, the
\* digest of the raw body under the secret.
SpellsDigest(piece) ==
    /\ piece.form \in {"raw", "sha256=", "v1:"}
    /\ piece.hex64
    /\ piece.digest = hmac_sha256(cfg.secret, cur.raw_body)

PiecesOf(headers) ==
    {headers.sig[k] : k \in 1..Len(headers.sig)}
    \cup {headers.sig256[k] : k \in 1..Len(headers.sig256)}

\* C16: with a secret, verify_hmac_signature accepts exactly when some piece of
\* X-Dialpad-Signature or X-Dialpad-Signature-SHA256 (raw hex, sha256=<hex> or
\* v1:<hex>, in either letter case) spells the HMAC-SHA256 of the raw body; a
\* digest of another body, and a header without a parsable piece, are rejected.
C16_HmacAcceptsExactlyTheBodyDigest ==
    (Authenticated /\ cfg.secret # "") =>
        (cur.hmac <=> \E piece \in PiecesOf(cur.headers) : SpellsDigest(piece))

\* C16 witness: the second piece, v1:<HEX> in capitals, is the digest; the first is not.
C16_Witness ==
    /\ Authenticated /\ cfg.secret # "" /\ cur.hmac
    /\ cur.raw_body = "body"
    /\ cur.headers.sig = <<PieceF("raw", FALSE, TRUE, "wrong", "body"),
                           PieceF("v1:", TRUE, TRUE, "s3cret", "body")>>
    /\ cur.headers.sig256 = <<>>

\* A bearer token of three segments, header {"alg": "HS256"}, signed with the secret.
CorrectlySigned(a) ==
    /\ Lower(a.scheme) = "bearer" /\ a.nparts = 3 /\ a.hdr = "HS256" /\ a.key = cfg.secret

\* C17 as stated: with a secret, verify_bearer_jwt never raises, and answers
\* true only for a correctly signed HS256 token.
C17_JwtFailsClosed ==
    (Authenticated /\ cfg.secret # "") =>
        /\ cur.jwt # "raise"
        /\ cur.jwt = "true" <=> CorrectlySigned(cur.headers.authz)

(***************************************************************************)
(* Properties of the webhook handler: the forwarded text, the responses    *)
(***************************************************************************)
\* C18 as stated: the body text of a forwarded hook message is the text
\* extract_message_text resolved, which is the text that was classified and
\* filtered.
C18_ForwardedTextIsResolvedText ==
    (Responded /\ Calls(cur.trace, {"post"}) # {})
    => NormalizedText(cur.req.body.data) = Str(extract_message_text(cur.req.body.data))

\* C19 as stated: every POST to /webhook/dialpad ends with a response whose
\* status is 200, 400, 401 or 500.
C19_AlwaysOneOfFourStatuses == Responded => cur.status \in {200, 400, 401, 500}

(***************************************************************************)
(* Properties of the POST endpoints together                               *)
(***************************************************************************)
Answered == cur.pc \in {"responded", "answered"}

\* C20 as stated: with a webhook secret configured, a request that carries no
\* valid signature or JWT leads to no store call and no Telegram or hook
\* notification, on each of the four POST endpoints.
C20_UnauthenticatedNotProcessed ==
    (/\ Answered
     /\ cfg.secret # ""
     /\ ~verify_webhook_auth(cur.req.headers, cur.req.raw_body, cfg.secret).raised
     /\ ~verify_webhook_auth(cur.req.headers, cur.req.raw_body, cfg.secret).ok)
    => Calls(cur.trace, {"store", "lookup", "telegram", "hook", "post"}) = {}

(***************************************************************************)
(* Properties of the Telegram messages                                     *)
(***************************************************************************)
Escaped(text) ==
    \A k \in 1..Len(text) :
        (text[k].data /\ text[k].ch \in MarkdownSpecials)
            => (k > 1 /\ text[k - 1] = Backslash)

\* C21 as stated: in every Markdown message sent to Telegram each _, *, backtick and [
\* that comes from the event is preceded by a backslash.
C21_UntrustedTextEscaped == cur.pc = "message" => Escaped(cur.text)


(***************************************************************************)
(* Properties of the helper functions                                      *)
(***************************************************************************)
\* C22 as stated: for every request and every Content-Length value, a POST
\* handler reads at most 1 MiB (1048576 bytes) of body before parsing.
\* Violated: a negative Content-Length makes rfile.read read to the end.
C22_BodyReadAtMostOneMiB == cur.pc = "read" => cur.body.read <= 1048576

SecurityKeywords ==
    {"otp", "2fa", "mfa", "passcode", "code", "verification", "security", "auth",
     "authentication", "verify", "login", "signin", "account", "bank", "google", "intuit"}

Words(s) == {Lower(s[k]) : k \in 1..Len(s)}

\* A 6-digit code stands next to the word "verification" in the text.
CodeNextToVerification(text) ==
    \E k \in 1..(Len(text) - 1) :
        \/ Digits(text[k]) = 6 /\ Lower(text[k + 1]) = "verification"
        \/ Lower(text[k]) = "verification" /\ Digits(text[k + 1]) = 6

\* C23: is_sensitive_message is true for every body with a 6-digit code next
\* to the word "verification"; false for every message without a digit run
\* of 4 or more and without a security keyword in sender, contact number or
\* body; and false for blank text whatever sender and contact number are.
C23_SensitiveVerdicts ==
    cur.pc = "sensitive" =>
        /\ CodeNextToVerification(cur.text) => cur.result
        /\ ( /\ \A k \in 1..Len(cur.text) : Digits(cur.text[k]) < 4
             /\ Words(cur.sender \o cur.contact_number \o cur.text) \cap SecurityKeywords = {} )
           => ~cur.result
        /\ StripsEmpty(cur.text) => ~cur.result

C23_Witness ==
    /\ cur.pc = "sensitive"
    /\ CodeNextToVerification(cur.text)
    /\ cur.sender = <<>>
    /\ Words(cur.text) \cap {"code", "bank"} = {}
    /\ cur.result


(***************************************************************************)
(* Properties of the call tools                                            *)
(***************************************************************************)
Selected == cur.pc = "selected"
Filtered == cur.with_value.some /\ cur.with_value.s # <<>>

\* The strings of the external number, from number, to number and contact of a call
FieldTexts(call) ==
    {call[f].s : f \in {f \in {"external_number", "from_number", "to_number", "contact"} :
                          call[f].t \notin {"absent", "null"}}}

\* The filter occurs in the text, letter case ignored
Occurs(filter, text) ==
    \E i \in 0..(Len(text) - Len(filter)) :
        \A k \in 1..Len(filter) : Lower(text[i + k]) = Lower(filter[k])

Matching == {i \in 1..Len(cur.calls) : \E t \in FieldTexts(cur.calls[i]) : Occurs(cur.with_value.s, t)}

\* C24: select_call with a filter returns a call in which the filter occurs,
\* letter case ignored, in the external number, from number, to number or a
\* contact field; it returns none when no call matches or the list is empty;
\* when exactly one call matches, that call is returned.
C24_FilterSelectsMatchingCall ==
    (Selected /\ Filtered) =>
        /\ Matching = {} => cur.result = <<>>
        /\ Matching # {} => \E i \in Matching : cur.result = <<cur.calls[i]>>

C24_Witness ==
    /\ Selected /\ Filtered
    /\ cur.with_value.s = <<"B">>
    /\ Matching = {2}
    /\ cur.calls[2].to_number.t = "list"
    /\ cur.result = <<cur.calls[2]>>

\* The parsed timestamps of a call, and the calls select_call chooses from
Parsable(v) == v.form \notin {"absent", "other"}
Stamps(call) == {parse_timestamp(call[time_fields[k]]) : k \in {k \in 1..Len(time_fields) : Parsable(call[time_fields[k]])}}
Candidates == IF Filtered THEN Matching ELSE 1..Len(cur.calls)
Chosen == CHOOSE i \in Candidates : cur.result = <<cur.calls[i]>>

\* C25 as stated: select_call returns the candidate with the greatest parsed
\* timestamp; among equal timestamps or among calls without any parsable
\* timestamp the first-listed wins; a call without a timestamp is never
\* preferred over a call that has one.  Violated for a timestamp "-inf".
C25_GreatestTimestampFirstListed ==
    (Selected /\ Candidates # {}) =>
        /\ cur.result # <<>>
        /\ \A i \in Candidates : \A t \in Stamps(cur.calls[i]) :
              \E u \in Stamps(cur.calls[Chosen]) : ~FloatLess(u, t)
        /\ \A i \in Candidates :
              (Stamps(cur.calls[i]) = Stamps(cur.calls[Chosen])) => Chosen <= i
        /\ (\E i \in Candidates : Stamps(cur.calls[i]) # {}) => Stamps(cur.calls[Chosen]) # {}

\* The same for calls whose timestamps are numbers or dates: holds.
C25_FiniteTimestamps ==
    (Selected /\ Candidates # {}
       /\ \A i \in Candidates : \A k \in 1..Len(time_fields) : cur.calls[i][time_fields[k]].form # "-inf")
    => /\ cur.result # <<>>
       /\ \A i \in Candidates : \A t \in Stamps(cur.calls[i]) :
             \E u \in Stamps(cur.calls[Chosen]) : ~FloatLess(u, t)
       /\ \A i \in Candidates :
             (Stamps(cur.calls[i]) = Stamps(cur.calls[Chosen])) => Chosen <= i
       /\ (\E i \in Candidates : Stamps(cur.calls[i]) # {}) => Stamps(cur.calls[Chosen]) # {}

\* The digits of the sender number, a leading country code 1 removed, cut
\* to the last 10 digits; empty when there is no sender number or no digit.
SenderDigits(v) ==
    LET d == IF Truthy(v) THEN SelectSeq(PyStr(v), IsDigit) ELSE <<>>
        e == IF Len(d) >= 11 /\ Head(d) = "1" THEN Tail(d) ELSE d
    IN IF Len(e) > 10 THEN SubSeq(e, Len(e) - 9, Len(e)) ELSE e

KeySuffix(sms) ==
    IF Truthy(sms.conversation_id) THEN PyStr(sms.conversation_id)
    ELSE IF Truthy(sms.message_id) THEN PyStr(sms.message_id)
    ELSE IF SenderDigits(sms.sender_number) # <<>> THEN SenderDigits(sms.sender_number)
    ELSE <<"unknown">>

\* C26: build_hook_session_key returns "hook:dialpad:sms:" followed by the
\* first available of conversation_id, message_id, the sender number as
\* digits without a leading country code 1 cut to its last 10 digits, or
\* "unknown"; the suffix is never empty.
C26_SessionKeyFallbackOrder ==
    cur.pc = "keyed" =>
        /\ cur.key = <<"hook:dialpad:sms:">> \o KeySuffix(cur.sms)
        /\ Len(cur.key) > 1

C26_Witness ==
    /\ cur.pc = "keyed"
    /\ ~Truthy(cur.sms.conversation_id) /\ ~Truthy(cur.sms.message_id)
    /\ Len(PyStr(cur.sms.sender_number)) = 17
    /\ cur.key = <<"hook:dialpad:sms:", "4", "1", "5", "5", "5", "5", "0", "1", "2", "3">>

IsListValue(v) == v.t \in {"list", "emptylist"}

\* What a number field reduces to: the first element of a list, null for a
\* null or an empty list, the value itself otherwise.
Scalar(v) ==
    CASE v.t = "list" -> Str(v.s)
      [] v.t \in {"emptylist", "null", "absent"} -> Null
      [] OTHER -> v

\* C27 as stated: normalize_sms_payload reduces the sender number and the
\* recipient number to a scalar (first element of a list, null for a null or
\* empty list), so neither is ever a list.  Violated: the sender number is
\* passed through as it arrived.
C27_NumbersAreScalars ==
    (cur.pc = "normalized" /\ ~cur.sms.raised) =>
        /\ ~IsListValue(cur.sms.sender_number) /\ ~IsListValue(cur.sms.recipient_number)
        /\ cur.sms.sender_number = Scalar(cur.data.from_number)
        /\ cur.sms.recipient_number = Scalar(cur.data.to_number)

\* The recipient number alone is reduced as C27 says.
C27_RecipientIsScalar ==
    (cur.pc = "normalized" /\ ~cur.sms.raised) =>
        cur.sms.recipient_number = Scalar(cur.data.to_number)

\* C28 as stated: for every payload the text of the normalized message is a
\* string and never null, and normalization never raises on an absent or
\* unparseable timestamp.  Violated: a text that is a number or a list is
\* passed through.
C28_TextIsAString ==
    cur.pc = "normalized" =>
        /\ ~cur.sms.raised => cur.sms.text.t = "str"
        /\ cur.data.contact.t \in {"absent", "dict"} => ~cur.sms.raised

\* The text is never null, and the timestamp never makes normalization raise.
C28_TextNeverNull ==
    cur.pc = "normalized" =>
        /\ cur.sms.text.t \notin {"null", "absent"}
        /\ cur.data.contact.t \in {"absent", "dict"} => ~cur.sms.raised

\* The pages a listing can reach: up to the first page without a cursor
RECURSIVE Reachable(_, _)
Reachable(responses, page) ==
    IF page > Len(responses) THEN {}
    ELSE {page} \cup (IF responses[page].cursor THEN Reachable(responses, page + 1) ELSE {})

RECURSIVE CountMissed(_)
CountMissed(items) ==
    IF items = <<>> THEN 0
    ELSE (IF infer_status(Head(items)) = "missed" THEN 1 ELSE 0) + CountMissed(Tail(items))

RECURSIVE SumOver(_, _)
SumOver(responses, pages) ==
    IF pages = {} THEN 0
    ELSE LET p == CHOOSE p \in pages : TRUE
         IN CountMissed(responses[p].items) + SumOver(responses, pages \ {p})

MissedReachable == SumOver(cur.responses, Reachable(cur.responses, 1))

\* C29 as stated: with the missed-only filter the listing pages on until
\* `limit` missed calls are collected or the pages are exhausted, so a missed
\* call on a later page is returned even when earlier pages already hold
\* `limit` calls that are not missed; never more than `limit` rows.
\* Violated: the filter is applied to the rows after fetch_calls has cut the
\* calls to `limit`.
C29_MissedFilterBeforeLimit ==
    (cur.pc = "listed" /\ cur.missed
       /\ \A p \in Reachable(cur.responses, 1) : cur.responses[p].items # <<>>) =>
        /\ Len(cur.rows) <= cur.limit
        /\ \A k \in 1..Len(cur.rows) : infer_status(cur.rows[k]) = "missed"
        /\ Len(cur.rows) = Min(cur.limit, MissedReachable)

\* The result never has more than `limit` rows: holds.
C29_AtMostLimitRows == cur.pc = "listed" => Len(cur.rows) <= cur.limit

\* C30 as stated: normalize_duration treats every value as milliseconds: for
\* a non-negative duration v (or total_duration when duration is absent) it
\* returns v divided by 1000 rounded down, and never a negative number.
\* Violated: values up to 10000 are returned as they are.
C30_DurationIsMilliseconds ==
    cur.pc = "duration" =>
        /\ cur.seconds >= 0
        /\ (cur.call.duration.form = "number" /\ cur.call.duration.n >= 0)
              => cur.seconds = cur.call.duration.n \div 1000
        /\ (cur.call.duration.form = "absent" /\ cur.call.total_duration.form = "number"
              /\ cur.call.total_duration.n >= 0)
              => cur.seconds = cur.call.total_duration.n \div 1000

\* normalize_duration never returns a negative number: holds.
C30_NeverNegative == cur.pc = "duration" => cur.seconds >= 0

\* The best-available timestamp of a call: the first parsable alias in the
\* order date_started, started_at, start_time, date_created, date
FirstStamp(call) ==
    LET ok == {k \in 1..Len(time_fields) : Parsable(call[time_fields[k]])}
    IN IF ok = {} THEN None
       ELSE parse_timestamp(call[time_fields[CHOOSE k \in ok : \A o \in ok : k <= o]])

NoInfinity ==
    \A i \in 1..Len(cur.calls) : \A k \in 1..Len(time_fields) :
        cur.calls[i][time_fields[k]].form # "-inf"

\* C39 as stated: select_call ranks each call by the first parsable value
\* among date_started, started_at, start_time, date_created, date; a later
\* alias counts only when every earlier one is absent or unparsable.
\* Violated: the rank is the greatest of all parsable aliases.
C39_RankedByFirstParsableAlias ==
    (Selected /\ Candidates # {} /\ NoInfinity) =>
        \A i \in Candidates :
            FirstStamp(cur.calls[i]).some =>
                /\ FirstStamp(cur.calls[Chosen]).some
                /\ ~FloatLess(FirstStamp(cur.calls[Chosen]), FirstStamp(cur.calls[i]))

\* With at most one alias set per call the ranking is as C39 says: holds.
C39_SingleAlias ==
    (Selected /\ Candidates # {} /\ NoInfinity
       /\ (\A h \in Candidates : Cardinality(Stamps(cur.calls[h])) <= 1)
       /\ \A j \in Candidates : cur.calls[j].date_started.form = "absent"
                                  \/ cur.calls[j].date_created.form = "absent") =>
        \A i \in Candidates :
            FirstStamp(cur.calls[i]).some =>
                /\ FirstStamp(cur.calls[Chosen]).some
                /\ ~FloatLess(FirstStamp(cur.calls[Chosen]), FirstStamp(cur.calls[i]))

(***************************************************************************)
(* Properties of the call endpoint                                         *)
(***************************************************************************)
CallAnswered == cur.pc = "answered" /\ cur.path = "/webhook/dialpad-call"

\* The call of the payload is inbound and missed: call_missed is true, the
\* call state is "missed", or the duration is zero (a duration that is
\* missing or no number counts as zero).
InboundMissed(data) ==
    /\ (IF data.call_direction.t # "absent" THEN data.call_direction ELSE data.direction)
          = Str(<<"inbound">>)
    /\ \/ data.call_missed.t = "true"
       \/ (data.call_state.t = "str" /\ LowerSeq(data.call_state.s) = <<"missed">>)
       \/ (IF data.duration.t # "absent" THEN data.duration ELSE data.call_duration).t # "num"

\* C38 as stated: POST /webhook/dialpad-call sends a Telegram alert only for
\* an inbound missed call, answers 200 for every valid JSON body whether or
\* not the send succeeded, and reports telegram_sent null when no alert was
\* due.  Violated: a JSON body that is no object, or a from_number that is
\* no string, leaves the handler by an exception.
C38_CallAlertOnlyMissedAlways200 ==
    (CallAnswered /\ cur.req.body.kind \in {"dict", "nondict"}) =>
        /\ cur.status = 200
        /\ Calls(cur.trace, {"telegram"}) # {}
              => (cur.req.body.kind = "dict" /\ InboundMissed(cur.req.body.data))
        /\ (cur.req.body.kind = "dict" /\ ~InboundMissed(cur.req.body.data))
              => cur.resp.telegram_sent = "null"

\* The same without the 200 for every body: holds.
C38_AlertOnlyForInboundMissed ==
    (CallAnswered /\ cur.req.body.kind \in {"dict", "nondict"}) =>
        /\ Calls(cur.trace, {"telegram"}) # {}
              => (cur.req.body.kind = "dict" /\ InboundMissed(cur.req.body.data))
        /\ (cur.req.body.kind = "dict" /\ ~InboundMissed(cur.req.body.data))
              => (cur.status = 200 /\ cur.resp.telegram_sent = "null")
        /\ (cur.status # 0 /\ cur.req.body.kind = "dict") => cur.status = 200

(***************************************************************************)
(* Properties of the paging loops                                          *)
(***************************************************************************)
\* The loop is about to make another request only after a page that allows it.
FetchBounded ==
    /\ cur.requests <= cur.max_pages
    /\ cur.pc = "fetching" => cur.requests < cur.max_pages
    /\ (cur.pc = "fetching" /\ cur.requests > 0) =>
          /\ cur.last.shape = "dict" /\ cur.last.cursor
          /\ cur.fn = "fetch_inbound_calls" =>
                /\ cur.last.items # <<>>
                /\ cur.windowed => \A k \in 1..Len(cur.last.items) :
                                      cur.last.items[k] >= FetchNowMs - LOOKBACK

\* C37: fetch_inbound_calls ends after at most 20 page requests whatever the
\* responses are, and earlier at a page without items, without a cursor or
\* with an item older than the lookback cutoff; call_lookup.list_calls ends
\* after at most max_pages requests or at the first response without cursor.
C37_PagingTerminates == []FetchBounded /\ <>(cur.pc = "fetched")

C37_Witness ==
    /\ cur.pc = "fetched" /\ cur.fn = "fetch_inbound_calls"
    /\ cur.requests = 20
    /\ cur.last.cursor /\ cur.last.items # <<>>


(***************************************************************************)
(* Properties of the command-line wrappers                                 *)
(***************************************************************************)
\* The number a known profile maps to, and whether a number text is usable
KnownProfile(profile) == profile.given /\ StripLower(profile.text) \in {"work", "sales"}
MappedTo(profile, env) == env[PROFILE_ENV_KEYS[StripLower(profile.text)]]
IsE164(number) == number.given /\ number.plus /\ number.n \in 7..15
Bare(number) == Tel(FALSE, number.plus, number.n, number.d)
Usable(profile, env) == KnownProfile(profile) /\ IsE164(MappedTo(profile, env))
Given(x) == x.given /\ x # Tel(FALSE, FALSE, 0, 0) /\ x # Txt("")
Blank(number) == ~number.given \/ (~number.plus /\ number.n = 0)

\* C32: resolve_sender picks the sender by the precedence --from (valid
\* E.164, equal to the profile's number when --profile is given too, unless
\* allow_profile_mismatch), else the --profile number, else
\* DIALPAD_DEFAULT_FROM_NUMBER, else the DIALPAD_DEFAULT_PROFILE number; it
\* raises and returns no sender when nothing resolves, when the chosen number
\* is not E.164, when the profile has no configured number, or on a conflict.
C32_SenderPrecedence ==
    cur.pc = "resolved" =>
        LET f == cur.from_number
            p == cur.profile
            e == cur.env
            df == e["DIALPAD_DEFAULT_FROM_NUMBER"]
            dp == e["DIALPAD_DEFAULT_PROFILE"]
            r == cur.result
            Picks(number) == ~r.raised /\ r.number = Bare(number)
        IN  /\ r.raised => r.number = NoTel
            /\ Given(f) /\ ~Given(p) =>
                    IF IsE164(f) THEN Picks(f) ELSE r.raised
            /\ Given(f) /\ Given(p) =>
                    IF /\ IsE164(f)
                       /\ Usable(p, e)
                       /\ (Bare(MappedTo(p, e)) = Bare(f) \/ cur.allow_profile_mismatch)
                    THEN Picks(f) ELSE r.raised
            /\ ~Given(f) /\ Given(p) =>
                    IF Usable(p, e) THEN Picks(MappedTo(p, e)) ELSE r.raised
            /\ ~Given(f) /\ ~Given(p) /\ ~Blank(df) =>
                    IF IsE164(df) THEN Picks(df) ELSE r.raised
            /\ ~Given(f) /\ ~Given(p) /\ Blank(df) /\ Given(dp) =>
                    IF Usable(dp, e) THEN Picks(MappedTo(dp, e)) ELSE r.raised
            /\ ~Given(f) /\ ~Given(p) /\ Blank(df) /\ ~Given(dp) => r.raised

\* The default number wins over a usable default profile that maps to another number.
C32_Witness ==
    /\ cur.pc = "resolved"
    /\ ~Given(cur.from_number) /\ ~Given(cur.profile)
    /\ cur.env["DIALPAD_DEFAULT_FROM_NUMBER"] = TelA
    /\ Usable(cur.env["DIALPAD_DEFAULT_PROFILE"], cur.env)
    /\ MappedTo(cur.env["DIALPAD_DEFAULT_PROFILE"], cur.env) = TelB
    /\ cur.result = Sender(TelA, <<"DIALPAD_DEFAULT_FROM_NUMBER">>)


\* What a failed run reports: the error message of the JSON document, or the line on stderr
Reported(result) ==
    IF result.stdout # <<>> THEN result.stdout[1].doc.error.message ELSE result.stderr[1].doc
PartialSuccess(result) ==
    /\ result.exit = 2
    /\ Mentions(Reported(result), "partial success")
    /\ result.stdout # <<>> => result.stdout[1].doc.error.code = "partial_success"
SendsTo(result, to) == {i \in 1..Len(result.calls) : result.calls[i].to = to}

\* C33: send_group_intro issues exactly two SMS sends in order, to the
\* prospect and then to the reference, both from the same sender; when the
\* reference send fails after the prospect send succeeded it exits 2 with a
\* partial-success error carrying the first message id, and the prospect
\* message is neither sent again nor rolled back.
C33_TwoSendsAndPartialSuccess ==
    cur.pc = "intro_done" =>
        LET r == cur.result
            a == cur.args
            sent == Len(r.calls) > 0
        IN  /\ r.exit = 0 /\ ~a.dry_run =>
                /\ Len(r.calls) = 2
                /\ r.calls[1].to = a.prospect /\ r.calls[2].to = a.reference
                /\ r.calls[1].from_number = r.calls[2].from_number
            /\ \A i \in 1..Len(r.calls) : r.calls[i].cmd = "sms send"
            /\ sent /\ cur.upstream[1].ok /\ ~cur.upstream[2].ok =>
                /\ PartialSuccess(r)
                /\ cur.upstream[1].id # "" =>
                        \E i \in 1..Len(Reported(r)) : Reported(r)[i] = cur.upstream[1].id
                /\ r.calls = <<[cmd |-> "sms send", to |-> a.prospect, from_number |-> r.calls[1].from_number],
                               [cmd |-> "sms send", to |-> a.reference, from_number |-> r.calls[1].from_number]>>
            /\ Cardinality(SendsTo(r, a.prospect)) <= 1

\* The reference send failed after message m1 went to the prospect.
C33_Witness ==
    /\ cur.pc = "intro_done"
    /\ cur.upstream = <<Upstream(TRUE, "m1"), Upstream(FALSE, "")>>
    /\ Len(cur.result.calls) = 2
    /\ cur.result.exit = 2
    /\ cur.args.json
    /\ cur.result.stdout[1].doc.error.code = "partial_success"


\* A run of one of the two commands that send SMS
SmsRun == cur.pc \in {"sms_done", "intro_done"}
Confirmed == cur.pc = "intro_done" => cur.args.confirm_share
\* The run passes everything that is checked before the dry-run switch is looked at
DryRunReady ==
    /\ cur.env.generated_cli
    /\ Confirmed
    /\ ~resolve_sender(cur.args.from_number, cur.args.profile,
                       cur.args.allow_profile_mismatch, cur.env).raised

\* C34: send_sms and send_group_intro issue an SMS send only when the run is
\* not a dry run and, for send_group_intro, --confirm-share was given; a dry
\* run checks no API key, calls no API and exits 0; a group intro without
\* --confirm-share exits 2 having sent nothing.
C34_SendOnlyWhenNotDryAndConfirmed ==
    SmsRun =>
        /\ cur.result.calls # <<>> => ~cur.args.dry_run /\ Confirmed
        /\ cur.args.dry_run /\ DryRunReady =>
                /\ ~cur.result.key_checked
                /\ cur.result.calls = <<>>
                /\ cur.result.exit = 0
        /\ ~Confirmed => cur.result.exit = 2 /\ cur.result.calls = <<>>

\* The same statement for send_group_intro alone, which holds.
C34_GroupIntroGuarded == cur.pc = "intro_done" => C34_SendOnlyWhenNotDryAndConfirmed


\* A run of a wrapper that was given --json
JsonRun == cur.pc \in {"sms_done", "call_done"} /\ cur.args.json
SuccessEnvelope(doc) ==
    /\ DOMAIN doc = {"ok", "command", "data", "meta"}
    /\ doc.ok = TRUE
ErrorEnvelope(doc) ==
    /\ DOMAIN doc = {"ok", "command", "error", "meta"}
    /\ doc.ok = FALSE
    /\ doc.error.code \in ERROR_CODES
    /\ doc.error.retryable \in BOOLEAN

\* C31: with --json a wrapper writes exactly one JSON object to stdout and
\* nothing to stderr: keys ok, command, data, meta with ok true and exit code
\* 0 on success; keys ok, command, error, meta with ok false, a code out of
\* ERROR_CODES, a boolean retryable and exit code 2 on failure.
C31_JsonEnvelope ==
    JsonRun =>
        LET r == cur.result
        IN  /\ Len(r.stdout) = 1 /\ r.stdout[1].json
            /\ r.stderr = <<>>
            /\ r.exit \in {0, 2}
            /\ r.exit = 0 => SuccessEnvelope(r.stdout[1].doc)
            /\ r.exit = 2 => ErrorEnvelope(r.stdout[1].doc)

\* The same for make_call alone, whose imports succeed.
C31_MakeCallEnvelope == cur.pc = "call_done" => C31_JsonEnvelope


\* The commands a create_contact run issued for one scope, by kind, and the
\* contacts matching the given phone or e-mail among the pages it listed
ScopeCalls(owner_id, cmd) ==
    {i \in 1..Len(cur.result.calls) :
        cur.result.calls[i].owner_id = owner_id /\ cur.result.calls[i].cmd = cmd}
Listed(listing, owner_id) ==
    {<<i, j>> \in (1..Len(listing)) \X (1..2) :
        i <= Cardinality(ScopeCalls(owner_id, "contacts.list")) /\ j <= Len(listing[i])}
ListedMatches(listing, owner_id) ==
    {ij \in Listed(listing, owner_id) :
        \/ listing[ij[1]][ij[2]].phones \cap cur.args.phones # {}
        \/ listing[ij[1]][ij[2]].emails \cap cur.args.emails # {}}
Writes(owner_id) == ScopeCalls(owner_id, "contacts.create") \cup ScopeCalls(owner_id, "contacts.update")
FirstWrite(owner_id) == CHOOSE i \in Writes(owner_id) : \A k \in Writes(owner_id) : i <= k
\* The run got as far as syncing the scope
Synced(owner_id) == ScopeCalls(owner_id, "contacts.list") # {} \/ Writes(owner_id) # {}
UpsertIn(owner_id, listing) ==
    LET matches == ListedMatches(listing, owner_id)
    IN  /\ Writes(owner_id) # {} =>
                /\ ScopeCalls(owner_id, "contacts.list") # {}
                /\ \A i \in ScopeCalls(owner_id, "contacts.list") : i < FirstWrite(owner_id)
        /\ Synced(owner_id) /\ matches = {} =>
                /\ Cardinality(ScopeCalls(owner_id, "contacts.create")) = 1
                /\ ScopeCalls(owner_id, "contacts.update") = {}
        /\ Cardinality(matches) = 1 =>
                /\ Cardinality(ScopeCalls(owner_id, "contacts.update")) = 1
                /\ \A i \in ScopeCalls(owner_id, "contacts.update") : \A ij \in matches :
                        cur.result.calls[i].id = listing[ij[1]][ij[2]].id
                /\ ScopeCalls(owner_id, "contacts.create") = {}
        /\ Cardinality(matches) > 1 =>
                /\ cur.result.exit = 2
                /\ Mentions(Reported(cur.result), "ambiguous")
                /\ Writes(owner_id) = {}

C35_AmbiguousReached ==
    /\ cur.pc = "contact_done"
    /\ Cardinality(ListedMatches(cur.listings.shared, "")) > 1
    /\ cur.result.exit = 2


\* The run created a webhook that came back with an id, and then failed
FailedAfterWebhook ==
    /\ cur.pc = "hook_done"
    /\ cur.result.calls # <<>>
    /\ cur.upstream.webhook.ok
    /\ cur.upstream.webhook.id.type # "none"
    /\ cur.result.exit # 0
DeleteAttempted == \E i \in 1..Len(cur.result.calls) : cur.result.calls[i].cmd = "webhooks.delete"

\* C36: when create_sms_webhook create fails after the webhook was created
\* (webhook id not an integer, --office-id not an integer, subscription
\* creation failed), a delete of that webhook is attempted before the error
\* is reported.
C36_CleanupAfterFailedCreate == FailedAfterWebhook => DeleteAttempted

\* The two failures that are cleaned up: a bad --office-id and a failed subscription.
C36_CleanupWhenIdIsInteger ==
    FailedAfterWebhook /\ cur.upstream.webhook.id.integer => DeleteAttempted

====
